---- MODULE Spec2Model ----
(***************************************************************************)
(* I1 telemetry ingestion: frame codec (utils/i1/protocol.py), TCP         *)
(* connection handler and frame extractor (utils/i1/server.py), in-memory  *)
(* store (utils/i1/store.py) and the sensor-side frame builder             *)
(* (interfaces/i1/__init__.py).                                            *)
(*                                                                         *)
(* Conventions.  A bytes value is a sequence of naturals 0..255.  Python's *)
(* None is the empty sequence where a frame is expected (no frame has      *)
(* fewer than 27 bytes) and NoRecord / NoPayload where a record is         *)
(* expected.  A str is the sequence of its character codes.  An f32 is     *)
(* kept as its 32-bit pattern; u8/u16/u32 are naturals.  TLC's integers    *)
(* are 32-bit signed: every u32 and every f32 pattern of the model's       *)
(* inputs is below 2^31 (a time before 2038, a float with sign bit clear). *)
(***************************************************************************)
EXTENDS Integers, Sequences, FiniteSets, TLC

VARIABLES
    wire,        \* per connection: bytes the peer sends that recv has not returned yet
    buffer,      \* per connection: handle()'s local bytearray
    pc,          \* per connection: position of the handler thread
    frame,       \* per connection: the frame _handle_frame is working on
    parsed,      \* per connection: _handle_frame's local `parsed` while add_weather runs
    ack,         \* per connection: the ACK built for that frame, not yet sent
    pend,        \* per thread: what an add_* call has computed before it takes the
                 \* lock: add_weather's StoredRecord, add_line_temperature's alert
    sock,        \* per connection: the sendall calls made, in order, each with
                 \* its argument and whether it wrote it (sent) or raised
    extracted,   \* per connection (history): frames _extract_frame has yielded
    parts,       \* per connection (history): what its peer sends, as a list of parts
    split,       \* per connection (history): some recv returned only a part of
                 \* the bytes its peer had sent by then
    timeouts,    \* per connection (history): for each recv call that raised
                 \* socket.timeout, in order, whether the buffer held bytes then
    store,       \* the I1DataStore instance
    ingested,    \* (history) records appended to the ring, in append order
    reconfigured, \* (history) configure has been called since the store was built
    ret,         \* per caller or consumer thread: value returned by its last read call
    alerted,     \* (history) per Component_Id: time_stamp and line_temperature of the
                 \* last add_line_temperature call that returned, and the threshold
                 \* that call read
    completed,   \* (history) the kinds of the payloads of the add_* calls that have
                 \* returned, in the order they returned
    unseen,      \* (history) per consumer: `since`, an add_* call has returned since
                 \* the consumer's last is_data_updated call (since the store was
                 \* built); `before`, what `since` was when it made that call
    lock,        \* the store's RLock: owner thread (0: free) and recursion depth
    prog,        \* per thread: the instructions left of the store method it executes
    access,      \* the last access a thread made to the store's state: <<>> or a
                 \* record of the thread, the method, the field, and whether the
                 \* thread held the lock
    manager,     \* _server_manager: the owner of its _lock (0: free), and its
                 \* _server and _thread (0: None, else an index into servers)
    servers,     \* the I1TCPServer objects constructed so far, in order
    calls        \* per application thread: its start or stop call on the manager

connVars  == <<wire, buffer, pc, frame, parsed, ack, sock, extracted, parts, split, timeouts>>
histVars  == <<alerted, completed, unseen>>
lockVars  == <<lock, prog, access>>
storeVars == <<store, ingested, reconfigured, ret, histVars, lockVars>>
mgrVars   == <<manager, servers, calls>>
vars      == <<wire, buffer, pc, frame, parsed, ack, pend, sock, extracted, parts, split,
               timeouts,
               store, ingested, reconfigured, ret, alerted, completed, unseen,
               lock, prog, access, manager, servers, calls>>

-----------------------------------------------------------------------------
(* Python helpers: min/max, slices, little-endian integers.                *)

Min(a, b) == IF a < b THEN a ELSE b
Max(a, b) == IF a > b THEN a ELSE b

\* s[:n]
Take(s, n) == SubSeq(s, 1, Min(n, Len(s)))
\* s[n:]
Drop(s, n) == SubSeq(s, n + 1, Len(s))
\* s[a:b], 0-based, clamped like a Python slice
Slice(s, a, b) == SubSeq(s, a + 1, Min(b, Len(s)))
\* s[-n:] for n >= 1
LastN(s, n) == SubSeq(s, Max(1, Len(s) - n + 1), Len(s))

\* struct.pack("<H", n), struct.pack("<I", n)
PackU16(n) == <<n % 256, (n \div 256) % 256>>
PackU32(n) == <<n % 256, (n \div 256) % 256, (n \div 65536) % 256, (n \div 16777216) % 256>>

\* struct.unpack_from("<H" / "<I" / "<f", data, offset)[0]; an f32 stays a bit pattern
_read_uint16(data, offset) == data[offset + 1] + 256 * data[offset + 2]
_read_uint32(data, offset) ==
    data[offset + 1] + 256 * data[offset + 2] + 65536 * data[offset + 3]
        + 16777216 * data[offset + 4]
_read_float(data, offset) == _read_uint32(data, offset)

\* raw.rstrip(b"\x00")
RECURSIVE RStripZero(_)
RStripZero(raw) ==
    IF raw = <<>> THEN raw
    ELSE IF raw[Len(raw)] = 0 THEN RStripZero(SubSeq(raw, 1, Len(raw) - 1))
    ELSE raw

IsAscii(b) == b < 128

\* raw.rstrip(b"\x00").decode("ascii", errors="ignore")
_decode_ascii(raw) == SelectSeq(RStripZero(raw), IsAscii)

\* s.ljust(n, b"\x00")
RECURSIVE LJustZero(_, _)
LJustZero(s, n) == IF Len(s) >= n THEN s ELSE LJustZero(Append(s, 0), n)

\* text.encode("ascii", errors="ignore")[:17].ljust(17, b"\x00")
_encode_component_id(text) == LJustZero(Take(SelectSeq(text, IsAscii), 17), 17)

-----------------------------------------------------------------------------
(* protocol.py: constants.                                                 *)

SYNC_BYTES == <<90, 165>>                 \* b"\x5A\xA5"
END_BYTE == 150                           \* 0x96
FRAME_TYPE_UPLINK == 1
FRAME_TYPE_DOWNLINK == 2
PACKET_TYPE_WEATHER == 49                 \* 0x31
PACKET_TYPE_TOWER_TILT == 50              \* 0x32
PACKET_TYPE_LINE_TEMPERATURE == 51        \* 0x33
PACKET_TYPE_HEARTBEAT == 97               \* 0x61
PACKET_TYPE_WEATHER_ACK == 177            \* 0xB1
PACKET_TYPE_TOWER_TILT_ACK == 178         \* 0xB2
PACKET_TYPE_LINE_TEMPERATURE_ACK == 179   \* 0xB3
PACKET_TYPE_HEARTBEAT_ACK == 225          \* 0xE1

\* variants of the ACK type lookup: no mapping at all; a default of 0
AckTypeOf_echo(packet_type) == packet_type
AckTypeOf_zero(packet_type) ==
    CASE packet_type = PACKET_TYPE_WEATHER -> PACKET_TYPE_WEATHER_ACK
      [] packet_type = PACKET_TYPE_TOWER_TILT -> PACKET_TYPE_TOWER_TILT_ACK
      [] packet_type = PACKET_TYPE_LINE_TEMPERATURE -> PACKET_TYPE_LINE_TEMPERATURE_ACK
      [] packet_type = PACKET_TYPE_HEARTBEAT -> PACKET_TYPE_HEARTBEAT_ACK
      [] OTHER -> 0

\* ACK_TYPE_MAP.get(packet_type, packet_type)
AckTypeOf(packet_type) ==
    CASE packet_type = PACKET_TYPE_WEATHER -> PACKET_TYPE_WEATHER_ACK
      [] packet_type = PACKET_TYPE_TOWER_TILT -> PACKET_TYPE_TOWER_TILT_ACK
      [] packet_type = PACKET_TYPE_LINE_TEMPERATURE -> PACKET_TYPE_LINE_TEMPERATURE_ACK
      [] packet_type = PACKET_TYPE_HEARTBEAT -> PACKET_TYPE_HEARTBEAT_ACK
      [] OTHER -> packet_type

-----------------------------------------------------------------------------
(* protocol.py: crc16_modbus.                                              *)

\* a ^ b for a, b in 0..15, bit by bit
RECURSIVE XorBits(_, _)
XorBits(a, b) ==
    IF a = 0 THEN b
    ELSE IF b = 0 THEN a
    ELSE ((a + b) % 2) + 2 * XorBits(a \div 2, b \div 2)
XorNibble == [a \in 0..15 |-> [b \in 0..15 |-> XorBits(a, b)]]

\* a ^ b for a, b in 0..65535, four bits at a time
BitXor(a, b) ==
    XorNibble[a % 16][b % 16]
    + 16 * XorNibble[(a \div 16) % 16][(b \div 16) % 16]
    + 256 * XorNibble[(a \div 256) % 16][(b \div 256) % 16]
    + 4096 * XorNibble[a \div 4096][b \div 4096]

\* variant of one pass of the inner loop: the polynomial is 0x8408
CrcShift_8408(crc) == IF crc % 2 = 1 THEN BitXor(crc \div 2, 33800) ELSE crc \div 2

\* one pass of the inner loop: if crc & 1: crc = (crc >> 1) ^ 0xA001 else crc >>= 1
CrcShift(crc) == IF crc % 2 = 1 THEN BitXor(crc \div 2, 40961) ELSE crc \div 2

\* `for _ in range(8)`
CrcShifts8(crc) ==
    CrcShift(CrcShift(CrcShift(CrcShift(CrcShift(CrcShift(CrcShift(CrcShift(crc))))))))

\* the loop over data[lo..hi] (1-based), entered with crc: crc ^= byte, then the
\* 8 shifts, byte after byte; the range is halved to keep the evaluation shallow
RECURSIVE CrcRange(_, _, _, _)
CrcRange(data, lo, hi, crc) ==
    IF lo > hi THEN crc
    ELSE IF lo = hi THEN CrcShifts8(BitXor(crc, data[lo]))
    ELSE LET mid == (lo + hi) \div 2
             left == CrcRange(data, lo, mid, crc)
         IN  IF left >= 0 THEN CrcRange(data, mid + 1, hi, left) ELSE 0

crc16_modbus(data) == CrcRange(data, 1, Len(data), 65535) % 65536

-----------------------------------------------------------------------------
(* protocol.py: decoding an uplink frame.                                  *)

\* A raised exception: its class, its message (an English tag for the text)
\* and the values formatted into the message.
Raise(cls, msg, args) == [cls |-> cls, msg |-> msg, args |-> args]
NoError == Raise("None", "", <<>>)
NoPayload == [kind |-> "none"]

\* What a parser does: return a value (err = NoError) or raise err.
Returned(value) == [err |-> NoError, value |-> value]
Raised(err) == [err |-> err, value |-> NoPayload]

_parse_weather_payload(content) ==
    IF Len(content) < 17 + 4 + 4 + 2 + 4 + 4 + 4 + 4 + 2 + 4 + 4 + 4 + 2
    THEN Raised(Raise("I1ProtocolError", "weather content too short", <<>>))
    ELSE Returned([
        kind |-> "weather",
        component_id |-> _decode_ascii(Slice(content, 0, 17)),
        time_stamp |-> _read_uint32(content, 17),
        average_wind_speed |-> _read_float(content, 21),
        average_wind_direction |-> _read_uint16(content, 25),   \* float(avg_wd_raw)
        max_wind_speed |-> _read_float(content, 27),
        extreme_wind_speed |-> _read_float(content, 31),
        standard_wind_speed |-> _read_float(content, 35),
        air_temperature |-> _read_float(content, 39),
        \* humidity_raw / 10.0, kept as the exact fraction <<numerator, denominator>>
        humidity |-> <<_read_uint16(content, 43), 10>>,
        air_pressure |-> _read_float(content, 45),
        precipitation |-> _read_float(content, 49),
        precipitation_intensity |-> _read_float(content, 53),
        radiation_intensity |-> _read_uint16(content, 57)])       \* float(radiation_raw)

_parse_tower_tilt_payload(content) ==
    IF Len(content) < 17 + 4 + 4 + 4 + 4 + 4 + 4
    THEN Raised(Raise("I1ProtocolError", "tilt content too short", <<>>))
    ELSE Returned([
        kind |-> "tower_tilt",
        component_id |-> _decode_ascii(Slice(content, 0, 17)),
        time_stamp |-> _read_uint32(content, 17),
        inclination |-> _read_float(content, 21),
        inclination_x |-> _read_float(content, 25),
        inclination_y |-> _read_float(content, 29),
        angle_x |-> _read_float(content, 33),
        angle_y |-> _read_float(content, 37)])

_parse_line_temperature_payload(content) ==
    IF Len(content) < 17 + 1 + 1 + 4 + 4
    THEN Raised(Raise("I1ProtocolError", "line temperature content too short", <<>>))
    ELSE Returned([
        kind |-> "line_temperature",
        component_id |-> _decode_ascii(Slice(content, 0, 17)),
        unit_sum |-> content[18],
        unit_no |-> content[19],
        time_stamp |-> _read_uint32(content, 19),
        line_temperature |-> _read_float(content, 23)])

\* variant of _parse_heartbeat_payload: a missing protocol version is zero
_parse_heartbeat_payload_34(content, cmd_id) ==
    IF Len(content) < 4 + 4 + 4 + 1 + 4 + 4 + 1 + 4 + 4 + 4
    THEN Raised(Raise("I1ProtocolError", "heartbeat content too short", <<>>))
    ELSE LET protocol_version_raw == LJustZero(Slice(content, 34, 38), 4)
         IN  IF Len(protocol_version_raw) # 4
             THEN Raised(Raise("I1ProtocolError", "protocol version too short", <<>>))
             ELSE Returned([
                 kind |-> "heartbeat",
                 cmd_id |-> cmd_id,
                 clocktime_stamp |-> _read_uint32(content, 0),
                 battery_voltage |-> _read_float(content, 4),
                 operation_temperature |-> _read_float(content, 8),
                 battery_capacity |-> _read_float(content, 12),
                 floating_charge |-> content[17],
                 total_working_time |-> _read_uint32(content, 17),
                 working_time |-> _read_uint32(content, 21),
                 connection_state |-> content[26],
                 send_flow |-> _read_uint32(content, 26),
                 receive_flow |-> _read_uint32(content, 30),
                 protocol_version |-> protocol_version_raw])

_parse_heartbeat_payload(content, cmd_id) ==
    IF Len(content) < 4 + 4 + 4 + 1 + 4 + 4 + 1 + 4 + 4 + 4
    THEN Raised(Raise("I1ProtocolError", "heartbeat content too short", <<>>))
    ELSE LET protocol_version_raw == Slice(content, 34, 38)
         IN  IF Len(protocol_version_raw) # 4
             THEN Raised(Raise("I1ProtocolError", "protocol version too short", <<>>))
             ELSE Returned([
                 kind |-> "heartbeat",
                 cmd_id |-> cmd_id,
                 clocktime_stamp |-> _read_uint32(content, 0),
                 battery_voltage |-> _read_float(content, 4),
                 operation_temperature |-> _read_float(content, 8),
                 battery_capacity |-> _read_float(content, 12),
                 floating_charge |-> content[17],
                 total_working_time |-> _read_uint32(content, 17),
                 working_time |-> _read_uint32(content, 21),
                 connection_state |-> content[26],
                 send_flow |-> _read_uint32(content, 26),
                 receive_flow |-> _read_uint32(content, 30),
                 protocol_version |-> protocol_version_raw])

\* The branch on packet_type at the end of parse_uplink_frame.
ParsePayload(packet_type, content, cmd_id) ==
    CASE packet_type = PACKET_TYPE_WEATHER -> _parse_weather_payload(content)
      [] packet_type = PACKET_TYPE_TOWER_TILT -> _parse_tower_tilt_payload(content)
      [] packet_type = PACKET_TYPE_LINE_TEMPERATURE -> _parse_line_temperature_payload(content)
      [] packet_type = PACKET_TYPE_HEARTBEAT -> _parse_heartbeat_payload(content, cmd_id)
      [] OTHER -> Raised(Raise("UnsupportedPacketTypeError", "unsupported packet type",
                               <<packet_type>>))

\* variant of parse_uplink_frame: the end byte is checked before the length
parse_uplink_frame_end_first(fr) ==
    IF Len(fr) < 2 + 2 + 17 + 1 + 1 + 1 + 2 + 1
    THEN Raised(Raise("I1ProtocolError", "frame too short", <<>>))
    ELSE IF Take(fr, 2) # SYNC_BYTES
    THEN Raised(Raise("FrameSyncError", "sync mismatch", <<>>))
    ELSE LET packet_length == _read_uint16(fr, 2)
             expected_len == 2 + 2 + 17 + 1 + 1 + 1 + packet_length + 2 + 1
         IN
         IF fr[Len(fr)] # END_BYTE
         THEN Raised(Raise("I1ProtocolError", "end byte mismatch", <<>>))
         ELSE IF Len(fr) # expected_len
         THEN Raised(Raise("I1ProtocolError", "length mismatch", <<Len(fr), expected_len>>))
         ELSE LET crc_expected == _read_uint16(fr, Len(fr) - 3)
                  crc_actual == crc16_modbus(Slice(fr, 2, Len(fr) - 3))
              IN
              IF crc_expected # crc_actual
              THEN Raised(Raise("CRCMismatchError", "crc mismatch",
                                <<crc_expected, crc_actual>>))
              ELSE LET cmd_id == _decode_ascii(Slice(fr, 4, 21))
                       packet_type == fr[23]
                       content == Slice(fr, 24, 24 + packet_length)
                       payload == ParsePayload(packet_type, content, cmd_id)
                   IN
                   IF payload.err # NoError THEN payload
                   ELSE Returned([
                       kind |-> "frame",
                       packet_length |-> packet_length,
                       cmd_id |-> cmd_id,
                       frame_type |-> fr[22],
                       packet_type |-> packet_type,
                       frame_no |-> fr[24],
                       payload |-> payload.value])

\* parse_uplink_frame: value is the ParsedFrame (raw_frame is the argument itself).
parse_uplink_frame(fr) ==
    IF Len(fr) < 2 + 2 + 17 + 1 + 1 + 1 + 2 + 1
    THEN Raised(Raise("I1ProtocolError", "frame too short", <<>>))
    ELSE IF Take(fr, 2) # SYNC_BYTES
    THEN Raised(Raise("FrameSyncError", "sync mismatch", <<>>))
    ELSE LET packet_length == _read_uint16(fr, 2)
             expected_len == 2 + 2 + 17 + 1 + 1 + 1 + packet_length + 2 + 1
         IN
         IF Len(fr) # expected_len
         THEN Raised(Raise("I1ProtocolError", "length mismatch", <<Len(fr), expected_len>>))
         ELSE IF fr[Len(fr)] # END_BYTE
         THEN Raised(Raise("I1ProtocolError", "end byte mismatch", <<>>))
         ELSE LET crc_expected == _read_uint16(fr, Len(fr) - 3)
                  crc_actual == crc16_modbus(Slice(fr, 2, Len(fr) - 3))
              IN
              IF crc_expected # crc_actual
              THEN Raised(Raise("CRCMismatchError", "crc mismatch",
                                <<crc_expected, crc_actual>>))
              ELSE LET cmd_id == _decode_ascii(Slice(fr, 4, 21))
                       packet_type == fr[23]
                       content == Slice(fr, 24, 24 + packet_length)
                       payload == ParsePayload(packet_type, content, cmd_id)
                   IN
                   IF payload.err # NoError THEN payload
                   ELSE Returned([
                       kind |-> "frame",
                       packet_length |-> packet_length,
                       cmd_id |-> cmd_id,
                       frame_type |-> fr[22],
                       packet_type |-> packet_type,
                       frame_no |-> fr[24],
                       payload |-> payload.value])

-----------------------------------------------------------------------------
(* protocol.py: build_ack_frame.  clocktime_stamp is the caller's value or *)
(* int(time.time()); the handler never passes one, so it is the clock.     *)

\* variant of the content of an ACK: one status byte for every packet type
AckContent_status(packet_type, success, mode, clocktime_stamp) ==
    <<IF success THEN 255 ELSE 0>>

AckContent(packet_type, success, mode, clocktime_stamp) ==
    IF packet_type = PACKET_TYPE_HEARTBEAT
    THEN <<IF success THEN 255 ELSE 0, mode % 256>> \o PackU32(clocktime_stamp)
    ELSE <<IF success THEN 255 ELSE 0>>

build_ack_frame(cmd_id, packet_type, frame_no, success, mode, clocktime_stamp) ==
    LET ack_packet_type == AckTypeOf(packet_type)
        cmd_id_bytes == LJustZero(Take(SelectSeq(cmd_id, IsAscii), 17), 17)
        content == AckContent(packet_type, success, mode, clocktime_stamp)
        packet_length == Len(content)
        header == SYNC_BYTES \o PackU16(packet_length) \o cmd_id_bytes
                    \o <<FRAME_TYPE_DOWNLINK, ack_packet_type % 256, frame_no % 256>>
                    \o content
        crc == crc16_modbus(Drop(header, 2))
    IN  header \o PackU16(crc) \o <<END_BYTE>>

\* example.py, parse_ack: what the sensor side reads in an ACK frame
\* (_decode_cmd_id is raw.rstrip(b"\x00").decode("ascii", errors="ignore"))
parse_ack(fr) ==
    LET packet_length == _read_uint16(fr, 2)
        content == Slice(fr, 24, 24 + packet_length)
        packet_type == fr[23]
    IN  [ cmd_id |-> _decode_ascii(Slice(fr, 4, 21)),
          frame_type |-> fr[22],
          packet_type |-> packet_type,
          frame_no |-> fr[24],
          status |->
             IF packet_type \in {PACKET_TYPE_WEATHER_ACK, PACKET_TYPE_TOWER_TILT_ACK,
                                 PACKET_TYPE_LINE_TEMPERATURE_ACK}
             THEN IF content # <<>> THEN <<content[1]>> ELSE <<>>
             ELSE IF packet_type = PACKET_TYPE_HEARTBEAT_ACK /\ Len(content) >= 6
             THEN <<content[1], content[2], _read_uint32(content, 2)>>
             ELSE <<>> ]

-----------------------------------------------------------------------------
(* interfaces/i1/__init__.py: the sensor side, which builds uplink frames. *)

_build_frame(cmd_id, packet_type, frame_no, content) ==
    LET header == SYNC_BYTES \o PackU16(Len(content)) \o _encode_component_id(cmd_id)
                    \o <<FRAME_TYPE_UPLINK, packet_type % 256, frame_no % 256>>
                    \o content
        crc == crc16_modbus(Drop(header, 2))
    IN  header \o PackU16(crc) \o <<END_BYTE>>

_clamp_u16(value) == Max(0, Min(65535, value))

\* build_weather; the sample's floats are given as f32 bit patterns, its
\* humidity in tenths (int(round(humidity * 10))) and the others as integers
build_weather(sample, frame_no, cmd_id) ==
    _build_frame(cmd_id, PACKET_TYPE_WEATHER, frame_no,
        _encode_component_id(sample.component_id)
        \o PackU32(sample.time_stamp)
        \o PackU32(sample.average_wind_speed)
        \o PackU16(sample.average_wind_direction % 360)
        \o PackU32(sample.max_wind_speed)
        \o PackU32(sample.extreme_wind_speed)
        \o PackU32(sample.standard_wind_speed)
        \o PackU32(sample.air_temperature)
        \o PackU16(_clamp_u16(sample.humidity_tenths))
        \o PackU32(sample.air_pressure)
        \o PackU32(sample.precipitation)
        \o PackU32(sample.precipitation_intensity)
        \o PackU16(_clamp_u16(sample.radiation_intensity)))

build_tower_tilt(sample, frame_no, cmd_id) ==
    _build_frame(cmd_id, PACKET_TYPE_TOWER_TILT, frame_no,
        _encode_component_id(sample.component_id)
        \o PackU32(sample.time_stamp)
        \o PackU32(sample.inclination)
        \o PackU32(sample.inclination_x)
        \o PackU32(sample.inclination_y)
        \o PackU32(sample.angle_x)
        \o PackU32(sample.angle_y))

build_line_temperature(sample, frame_no, cmd_id) ==
    _build_frame(cmd_id, PACKET_TYPE_LINE_TEMPERATURE, frame_no,
        _encode_component_id(sample.component_id)
        \o <<sample.unit_sum % 256, sample.unit_no % 256>>
        \o PackU32(sample.time_stamp)
        \o PackU32(sample.line_temperature))

build_heartbeat(sample, frame_no) ==
    _build_frame(sample.cmd_id, PACKET_TYPE_HEARTBEAT, frame_no,
        PackU32(sample.clocktime_stamp)
        \o PackU32(sample.battery_voltage)
        \o PackU32(sample.operation_temperature)
        \o PackU32(sample.battery_capacity)
        \o <<sample.floating_charge % 256>>
        \o PackU32(sample.total_working_time)
        \o PackU32(sample.working_time)
        \o <<sample.connection_state % 256>>
        \o PackU32(sample.send_flow)
        \o PackU32(sample.receive_flow)
        \o LJustZero(Take(sample.protocol_version, 4), 4))

-----------------------------------------------------------------------------
(* store.py: I1DataStore.  The instance is the record `store`; a dict is a *)
(* function on its set of keys; an Optional argument is <<>> (None) or     *)
(* <<value>>.  Thresholds and temperatures are f32 bit patterns.           *)

\* Order of two f32 values given as bit patterns (IEEE 754: a NaN compares
\* false).  The sign bit is clear in every pattern of the model, so the order of
\* the values is the order of the patterns.
F32IsNaN(bits) == bits > 2139095040
F32GE(a, b) == ~F32IsNaN(a) /\ ~F32IsNaN(b) /\ a >= b

\* d[key] = value
DictSet(d, key, value) ==
    [k \in (DOMAIN d) \cup {key} |-> IF k = key THEN value ELSE d[k]]
EmptyDict == <<>>

\* variant of deque(items, maxlen=n): the first n items
Deque_oldest(items, n) == Take(items, n)

\* deque(items, maxlen=n): the last n items
Deque(items, n) == LastN(items, n)

\* BJ_TZ = ZoneInfo("Asia/Shanghai"): UTC+08:00, and UTC+09:00 during the
\* summer time of 1986..1991.  The fixed-offset fallback (timezone(+8)) differs
\* from it only inside those intervals.
BJ_SummerTime ==
    { <<515527200, 527014800>>, <<545162400, 558464400>>, <<577216800, 589914000>>,
      <<608666400, 621968400>>, <<640116000, 653418000>>, <<671565600, 684867600>> }
\* variant of BJ_TZ: UTC
BJ_UtcOffset_utc(ts) == 0

BJ_UtcOffset(ts) ==
    IF \E iv \in BJ_SummerTime : iv[1] <= ts /\ ts < iv[2] THEN 32400 ELSE 28800

\* Gregorian date of a day number (days since 1970-01-01), as datetime computes it
CivilFromDays(z) ==
    LET zz == z + 719468
        era == zz \div 146097
        doe == zz - era * 146097
        yoe == (doe - doe \div 1460 + doe \div 36524 - doe \div 146096) \div 365
        doy == doe - (365 * yoe + yoe \div 4 - yoe \div 100)
        mp == (5 * doy + 2) \div 153
        d == doy - (153 * mp + 2) \div 5 + 1
        m == IF mp < 10 THEN mp + 3 ELSE mp - 9
        y == yoe + era * 400 + (IF m <= 2 THEN 1 ELSE 0)
    IN  [year |-> y, month |-> m, day |-> d]

\* "%02d" and "%04d" as character codes
Digits2(n) == <<48 + ((n \div 10) % 10), 48 + (n % 10)>>
Digits4(n) == Digits2(n \div 100) \o Digits2(n % 100)

\* _format_timestamp: strftime("%Y-%m-%d %H:%M") of the instant in BJ_TZ
_format_timestamp(ts) ==
    LET local == ts + BJ_UtcOffset(ts)
        date == CivilFromDays(local \div 86400)
        secs == local % 86400
    IN  Digits4(date.year) \o <<45>> \o Digits2(date.month) \o <<45>> \o Digits2(date.day)
          \o <<32>> \o Digits2(secs \div 3600) \o <<58>> \o Digits2((secs % 3600) \div 60)

\* round(x, 2): kept as the term itself, the model never needs its digits
Round2(x) == <<"round2", x>>

\* variant of I1DataStore.__init__: max_records is not clamped
I1DataStore_unclamped(max_records, line_temp_alert_threshold, line_temp_alert_timeout) ==
    [ max_records |-> max_records,
      line_temp_alert_threshold |-> line_temp_alert_threshold,
      line_temp_alert_timeout |-> Max(1, line_temp_alert_timeout),
      weather_records |-> <<>>,
      line_temp_alerts |-> EmptyDict,
      latest_tower_tilt |-> EmptyDict,
      latest_heartbeat |-> NoPayload,
      update_counter |-> 0,
      last_update_counter_checked |-> 0 ]

\* I1DataStore.__init__
I1DataStore(max_records, line_temp_alert_threshold, line_temp_alert_timeout) ==
    [ max_records |-> Max(1, max_records),
      line_temp_alert_threshold |-> line_temp_alert_threshold,
      line_temp_alert_timeout |-> Max(1, line_temp_alert_timeout),
      weather_records |-> <<>>,
      line_temp_alerts |-> EmptyDict,
      latest_tower_tilt |-> EmptyDict,
      latest_heartbeat |-> NoPayload,
      update_counter |-> 0,
      last_update_counter_checked |-> 0 ]

\* variant of configure: max_records is not clamped
configure_unclamped(s, max_records, line_temp_alert_threshold, line_temp_alert_timeout) ==
    LET rebuild == max_records # <<>> /\ max_records[1] # s.max_records
        s1 == IF rebuild
              THEN [s EXCEPT !.max_records = max_records[1],
                             !.weather_records = Deque(@, max_records[1])]
              ELSE s
        s2 == IF line_temp_alert_threshold # <<>>
              THEN [s1 EXCEPT !.line_temp_alert_threshold = line_temp_alert_threshold[1]]
              ELSE s1
    IN  IF line_temp_alert_timeout # <<>>
        THEN [s2 EXCEPT !.line_temp_alert_timeout = Max(1, line_temp_alert_timeout[1])]
        ELSE s2

\* configure, the whole body under the lock
configure(s, max_records, line_temp_alert_threshold, line_temp_alert_timeout) ==
    LET rebuild == max_records # <<>> /\ max_records[1] # s.max_records
        s1 == IF rebuild
              THEN [s EXCEPT !.max_records = Max(1, max_records[1]),
                             !.weather_records = Deque(@, Max(1, max_records[1]))]
              ELSE s
        s2 == IF line_temp_alert_threshold # <<>>
              THEN [s1 EXCEPT !.line_temp_alert_threshold = line_temp_alert_threshold[1]]
              ELSE s1
    IN  IF line_temp_alert_timeout # <<>>
        THEN [s2 EXCEPT !.line_temp_alert_timeout = Max(1, line_temp_alert_timeout[1])]
        ELSE s2

\* variant of _get_wire_flag: a difference equal to the timeout is too old
_get_wire_flag_strict(s, component_id, ts) ==
    IF component_id \notin DOMAIN s.line_temp_alerts THEN 0
    ELSE LET alert == s.line_temp_alerts[component_id]
         IN  IF ~alert[2] THEN 0
             ELSE IF ts - alert[1] >= s.line_temp_alert_timeout THEN 0
             ELSE 1

\* _get_wire_flag
_get_wire_flag(s, component_id, ts) ==
    IF component_id \notin DOMAIN s.line_temp_alerts THEN 0
    ELSE LET alert == s.line_temp_alerts[component_id]
             alert_ts == alert[1]
             is_alert == alert[2]
         IN  IF ~is_alert THEN 0
             ELSE IF ts - alert_ts > s.line_temp_alert_timeout THEN 0
             ELSE 1

\* add_weather, first part: the StoredRecord is built before the lock is taken
NewStoredRecord(s, payload, frame_no) ==
    [ timestamp_str |-> _format_timestamp(payload.time_stamp),
      sway_speed_dps |-> Round2(payload.standard_wind_speed),
      temperature_c |-> Round2(payload.air_temperature),
      humidity_rh |-> Round2(payload.humidity),
      pressure_hpa |-> Round2(payload.air_pressure),
      lux |-> Round2(payload.radiation_intensity),
      wire_foreign_object |-> _get_wire_flag(s, payload.component_id, payload.time_stamp),
      component_id |-> payload.component_id,
      frame_no |-> frame_no,
      wind_speed_avg_10min |-> Round2(payload.average_wind_speed),
      wind_direction_deg |-> payload.average_wind_direction,
      wind_speed_max |-> Round2(payload.max_wind_speed),
      wind_speed_extreme |-> Round2(payload.extreme_wind_speed),
      precipitation_mm |-> Round2(payload.precipitation),
      precipitation_intensity_mm_min |-> Round2(payload.precipitation_intensity),
      raw_payload |-> payload ]
NoRecord == [frame_no |-> -1]

\* variant of deque.append: a full deque refuses the new item
DequeAppend_full(items, x, n) == IF Len(items) >= n THEN items ELSE Append(items, x)

\* deque.append on a deque of maxlen n
DequeAppend(items, x, n) == Deque(Append(items, x), n)

\* add_weather, second part: under the lock
AppendStoredRecord(s, record) ==
    [s EXCEPT !.weather_records = DequeAppend(@, record, s.max_records),
              !.update_counter = @ + 1]

\* add_line_temperature, first part (lines 115-116): is_alert and event_ts are
\* computed before the lock is taken.  threshold is the value that was read,
\* kept for the history variable `alerted`.
NewLineTempAlert(s, payload) ==
    [ payload |-> payload,
      is_alert |-> F32GE(payload.line_temperature, s.line_temp_alert_threshold),
      event_ts |-> payload.time_stamp,
      threshold |-> s.line_temp_alert_threshold ]

\* variant of the second part: the flags of the stored records of the
\* component follow the new alert
StoreLineTempAlert_refresh(s, a) ==
    [s EXCEPT !.line_temp_alerts =
                  DictSet(@, a.payload.component_id, <<a.event_ts, a.is_alert>>),
              !.weather_records =
                  [i \in 1..Len(@) |->
                      IF @[i].component_id = a.payload.component_id
                      THEN [@[i] EXCEPT !.wire_foreign_object = IF a.is_alert THEN 1 ELSE 0]
                      ELSE @[i]],
              !.update_counter = @ + 1]

\* variant of the second part: an entry is replaced only by a newer reading
StoreLineTempAlert_newest(s, a) ==
    IF /\ a.payload.component_id \in DOMAIN s.line_temp_alerts
       /\ s.line_temp_alerts[a.payload.component_id][1] > a.event_ts
    THEN [s EXCEPT !.update_counter = @ + 1]
    ELSE [s EXCEPT !.line_temp_alerts =
                       DictSet(@, a.payload.component_id, <<a.event_ts, a.is_alert>>),
                   !.update_counter = @ + 1]

\* add_line_temperature, second part: under the lock
StoreLineTempAlert(s, a) ==
    [s EXCEPT !.line_temp_alerts =
                  DictSet(@, a.payload.component_id, <<a.event_ts, a.is_alert>>),
              !.update_counter = @ + 1]

\* add_line_temperature when no other thread runs between its two parts
add_line_temperature(s, payload) == StoreLineTempAlert(s, NewLineTempAlert(s, payload))

\* what pend holds
IsStoredRecord(p) == "timestamp_str" \in DOMAIN p
IsLineTempAlert(p) == "is_alert" \in DOMAIN p

\* variant of add_tower_tilt: the cache holds the latest tilt of one component
add_tower_tilt_single(s, payload) ==
    [s EXCEPT !.latest_tower_tilt = DictSet(EmptyDict, payload.component_id, payload),
              !.update_counter = @ + 1]

add_tower_tilt(s, payload) ==
    [s EXCEPT !.latest_tower_tilt = DictSet(@, payload.component_id, payload),
              !.update_counter = @ + 1]

\* variant of add_heartbeat: the counter is left alone
add_heartbeat_silent(s, payload) == [s EXCEPT !.latest_heartbeat = payload]

add_heartbeat(s, payload) ==
    [s EXCEPT !.latest_heartbeat = payload,
              !.update_counter = @ + 1]

_record_to_dict(record) ==
    [ timestamp_Beijing |-> record.timestamp_str,
      sway_speed_dps |-> record.sway_speed_dps,
      temperature_C |-> record.temperature_c,
      humidity_RH |-> record.humidity_rh,
      pressure_hPa |-> record.pressure_hpa,
      lux |-> record.lux,
      wire_foreign_object |-> record.wire_foreign_object,
      component_id |-> record.component_id,
      frame_no |-> record.frame_no,
      wind_speed_avg_10min |-> record.wind_speed_avg_10min,
      wind_direction_deg |-> record.wind_direction_deg,
      wind_speed_max |-> record.wind_speed_max,
      wind_speed_extreme |-> record.wind_speed_extreme,
      precipitation_mm |-> record.precipitation_mm,
      precipitation_intensity_mm_min |-> record.precipitation_intensity_mm_min ]

get_all_weather(s) ==
    [i \in 1..Len(s.weather_records) |-> _record_to_dict(s.weather_records[i])]

get_weather_count(s) == Len(s.weather_records)

\* variant of is_data_updated: the cursor is not advanced
is_data_updated_sticky(s) ==
    [value |-> s.update_counter # s.last_update_counter_checked, store |-> s]

\* is_data_updated: the value returned, and the store after the call
is_data_updated(s) ==
    IF s.update_counter # s.last_update_counter_checked
    THEN [value |-> TRUE,
          store |-> [s EXCEPT !.last_update_counter_checked = s.update_counter]]
    ELSE [value |-> FALSE, store |-> s]

\* What a read method hands to its caller: a list or dict the call has built,
\* which only the caller holds; an immutable value (an int, a bool, None, a
\* frozen dataclass instance); or the very container a field of the store
\* refers to.
NewObject(v) == [kind |-> "new", value |-> v]
Immutable(v) == [kind |-> "immutable", value |-> v]
StoreObject(field) == [kind |-> "store", field |-> field]

\* variant of get_latest_tower_tilt: the dict itself is returned
get_latest_tower_tilt_shared(s) == StoreObject("latest_tower_tilt")

\* get_latest_tower_tilt: dict(self._latest_tower_tilt)
get_latest_tower_tilt(s) == NewObject(s.latest_tower_tilt)

\* the return value of the read methods (None is <<>>)
ReadResult(s, method, limit) ==
    CASE method = "get_all_weather" \/ (method = "get_recent_weather" /\ limit <= 0) ->
           NewObject(get_all_weather(s))
      [] method = "get_latest_weather" ->
           IF s.weather_records = <<>> THEN Immutable(<<>>)
           ELSE NewObject(_record_to_dict(s.weather_records[Len(s.weather_records)]))
      [] method = "get_recent_weather" /\ limit > 0 ->
           LET slice_records == LastN(s.weather_records, limit)
           IN  NewObject([i \in 1..Len(slice_records) |-> _record_to_dict(slice_records[i])])
      [] method = "get_weather_count" -> Immutable(get_weather_count(s))
      [] method = "get_latest_tower_tilt" -> get_latest_tower_tilt(s)
      [] method = "get_latest_heartbeat" -> Immutable(s.latest_heartbeat)

-----------------------------------------------------------------------------
(* server.py: frame extractor and header peek.                             *)

\* the scan `for idx in range(len(buffer) - 1)`: first index (0-based) at
\* which SYNC_BYTES starts, or -1
FindSync(buf) ==
    LET hits == {idx \in 0..(Len(buf) - 2) : SubSeq(buf, idx + 1, idx + 2) = SYNC_BYTES}
    IN  IF hits = {} THEN -1 ELSE CHOOSE idx \in hits : \A other \in hits : idx <= other

\* variants of _extract_frame: the bytes before the sync are not dropped; an
\* incomplete frame is treated like a spurious sync
_extract_frame_keep(buf0) ==
    IF buf0 = <<>> THEN [frame |-> <<>>, remaining |-> buf0]
    ELSE LET start_index == FindSync(buf0) IN
    IF start_index = -1 THEN [frame |-> <<>>, remaining |-> LastN(buf0, 1)]
    ELSE LET buf == buf0 IN
    IF Len(buf) < 2 + 2 THEN [frame |-> <<>>, remaining |-> buf]
    ELSE LET packet_length == _read_uint16(buf, 2)
             expected_len == 2 + 2 + 17 + 1 + 1 + 1 + packet_length + 2 + 1
         IN
         IF packet_length <= 0 \/ expected_len > 4096
         THEN [frame |-> <<>>, remaining |-> Drop(buf, 2)]
         ELSE IF Len(buf) < expected_len THEN [frame |-> <<>>, remaining |-> buf]
         ELSE [frame |-> Take(buf, expected_len), remaining |-> Drop(buf, expected_len)]
_extract_frame_hasty(buf0) ==
    IF buf0 = <<>> THEN [frame |-> <<>>, remaining |-> buf0]
    ELSE LET start_index == FindSync(buf0) IN
    IF start_index = -1 THEN [frame |-> <<>>, remaining |-> LastN(buf0, 1)]
    ELSE LET buf == IF start_index > 0 THEN Drop(buf0, start_index) ELSE buf0 IN
    IF Len(buf) < 2 + 2 THEN [frame |-> <<>>, remaining |-> buf]
    ELSE LET packet_length == _read_uint16(buf, 2)
             expected_len == 2 + 2 + 17 + 1 + 1 + 1 + packet_length + 2 + 1
         IN
         IF packet_length <= 0 \/ expected_len > 4096 \/ Len(buf) < expected_len
         THEN [frame |-> <<>>, remaining |-> Drop(buf, 2)]
         ELSE [frame |-> Take(buf, expected_len), remaining |-> Drop(buf, expected_len)]

\* variant of _extract_frame: nothing is retained when no sync is found
_extract_frame_forget(buf0) ==
    IF buf0 = <<>> THEN [frame |-> <<>>, remaining |-> buf0]
    ELSE LET start_index == FindSync(buf0) IN
    IF start_index = -1 THEN [frame |-> <<>>, remaining |-> <<>>]
    ELSE LET buf == IF start_index > 0 THEN Drop(buf0, start_index) ELSE buf0 IN
    IF Len(buf) < 2 + 2 THEN [frame |-> <<>>, remaining |-> buf]
    ELSE LET packet_length == _read_uint16(buf, 2)
             expected_len == 2 + 2 + 17 + 1 + 1 + 1 + packet_length + 2 + 1
         IN
         IF packet_length <= 0 \/ expected_len > 4096
         THEN [frame |-> <<>>, remaining |-> Drop(buf, 2)]
         ELSE IF Len(buf) < expected_len THEN [frame |-> <<>>, remaining |-> buf]
         ELSE [frame |-> Take(buf, expected_len), remaining |-> Drop(buf, expected_len)]

\* variant of _extract_frame: a frame of 4097 bytes is accepted
_extract_frame_4097(buf0) ==
    IF buf0 = <<>> THEN [frame |-> <<>>, remaining |-> buf0]
    ELSE LET start_index == FindSync(buf0) IN
    IF start_index = -1 THEN [frame |-> <<>>, remaining |-> LastN(buf0, 1)]
    ELSE LET buf == IF start_index > 0 THEN Drop(buf0, start_index) ELSE buf0 IN
    IF Len(buf) < 2 + 2 THEN [frame |-> <<>>, remaining |-> buf]
    ELSE LET packet_length == _read_uint16(buf, 2)
             expected_len == 2 + 2 + 17 + 1 + 1 + 1 + packet_length + 2 + 1
         IN
         IF packet_length <= 0 \/ expected_len > 4097
         THEN [frame |-> <<>>, remaining |-> Drop(buf, 2)]
         ELSE IF Len(buf) < expected_len THEN [frame |-> <<>>, remaining |-> buf]
         ELSE [frame |-> Take(buf, expected_len), remaining |-> Drop(buf, expected_len)]

\* _extract_frame: frame is <<>> for None
_extract_frame(buf0) ==
    IF buf0 = <<>> THEN [frame |-> <<>>, remaining |-> buf0]
    ELSE LET start_index == FindSync(buf0) IN
    IF start_index = -1 THEN [frame |-> <<>>, remaining |-> LastN(buf0, 1)]
    ELSE LET buf == IF start_index > 0 THEN Drop(buf0, start_index) ELSE buf0 IN
    IF Len(buf) < 2 + 2 THEN [frame |-> <<>>, remaining |-> buf]
    ELSE LET packet_length == _read_uint16(buf, 2)
             expected_len == 2 + 2 + 17 + 1 + 1 + 1 + packet_length + 2 + 1
         IN
         IF packet_length <= 0 \/ expected_len > 4096
         THEN [frame |-> <<>>, remaining |-> Drop(buf, 2)]
         ELSE IF Len(buf) < expected_len THEN [frame |-> <<>>, remaining |-> buf]
         ELSE [frame |-> Take(buf, expected_len), remaining |-> Drop(buf, expected_len)]

\* variants of _safe_peek_header: base_len counts the CRC and end byte and one
\* content byte more; frame_no is read one byte early
_safe_peek_header_long(fr) ==
    IF Len(fr) < 2 + 2 + 17 + 1 + 1 + 1 + 2 + 1 + 2 THEN <<>>
    ELSE << [cmd_id |-> _decode_ascii(Slice(fr, 4, 21)),
             packet_type |-> fr[23],
             frame_no |-> fr[24]] >>
_safe_peek_header_off(fr) ==
    IF Len(fr) < 2 + 2 + 17 + 1 + 1 + 1 THEN <<>>
    ELSE << [cmd_id |-> _decode_ascii(Slice(fr, 4, 21)),
             packet_type |-> fr[23],
             frame_no |-> fr[23]] >>

\* _safe_peek_header: <<>> for None, else <<(cmd_id, packet_type, frame_no)>>
_safe_peek_header(fr) ==
    IF Len(fr) < 2 + 2 + 17 + 1 + 1 + 1 THEN <<>>
    ELSE << [cmd_id |-> _decode_ascii(Slice(fr, 4, 21)),
             packet_type |-> fr[23],
             frame_no |-> fr[24]] >>

-----------------------------------------------------------------------------
(* The threads.  Conns are the connection slots of the TCP server, each    *)
(* served by one handler thread; Callers are threads that call the store   *)
(* directly (the HTTP layer, the application's initialisation).            *)

Conns == {1, 2}
Callers == {3}
Threads == Conns \cup Callers
\* the threads that poll is_data_updated (two clients of the HTTP layer)
Consumers == {3, 4}
\* the threads of the application that call start_i1_tcp_server and
\* stop_i1_tcp_server
Apps == {5, 6}

\* values int(time.time()) may return while a heartbeat ACK is built
Clock == {1700000100}

\* how many sendall calls may raise in one run
MaxSendFails == 1

\* (history) an add_* call with this payload returns; threshold is the alert
\* threshold the call read, for a line temperature payload
IngestReturns(payload, threshold) ==
    /\ completed' = Append(completed, payload.kind)
    /\ unseen' = [t \in DOMAIN unseen |-> [unseen[t] EXCEPT !.since = TRUE]]
    /\ alerted' = IF payload.kind = "line_temperature"
                  THEN DictSet(alerted, payload.component_id,
                               [ time_stamp |-> payload.time_stamp,
                                 line_temperature |-> payload.line_temperature,
                                 threshold |-> threshold ])
                  ELSE alerted

-----------------------------------------------------------------------------
(* server.py: I1RequestHandler.handle and _handle_frame, one action per    *)
(* step of the handler thread of connection c.                             *)

\* variant of Recv: one bytearray is shared by the handlers
Recv_shared(c) ==
    /\ pc[c] = "recv"
    /\ wire[c] # <<>>
    /\ \E n \in 1..Min(Len(wire[c]), 4096) :
          /\ buffer' = [d \in Conns |-> buffer[d] \o Take(wire[c], n)]
          /\ wire' = [wire EXCEPT ![c] = Drop(@, n)]
          /\ split' = [split EXCEPT ![c] = @ \/ n < Len(wire[c])]
    /\ pc' = [pc EXCEPT ![c] = "extract"]
    /\ UNCHANGED <<mgrVars, timeouts, frame, parsed, ack, pend, sock, extracted, parts, storeVars>>

\* self.request.recv(4096) returns n >= 1 bytes; buffer.extend(chunk)
Recv(c) ==
    /\ pc[c] = "recv"
    /\ wire[c] # <<>>
    /\ \E n \in 1..Min(Len(wire[c]), 4096) :
          /\ buffer' = [buffer EXCEPT ![c] = @ \o Take(wire[c], n)]
          /\ wire' = [wire EXCEPT ![c] = Drop(@, n)]
          /\ split' = [split EXCEPT ![c] = @ \/ n < Len(wire[c])]
    /\ pc' = [pc EXCEPT ![c] = "extract"]
    /\ UNCHANGED <<mgrVars, timeouts, frame, parsed, ack, pend, sock, extracted, parts, storeVars>>

\* recv returns b"" (the peer closed after all its bytes were read): break
RecvEof(c) ==
    /\ pc[c] = "recv"
    /\ wire[c] = <<>>
    /\ pc' = [pc EXCEPT ![c] = "closed"]
    /\ UNCHANGED <<mgrVars, timeouts, wire, buffer, frame, parsed, ack, pend, sock, extracted, parts, split, storeVars>>

\* variant of Extract: `buffer = remaining` is missing when a frame is yielded
Extract_again(c) ==
    /\ pc[c] = "extract"
    /\ LET r == _extract_frame(buffer[c]) IN
          IF r.frame = <<>>
          THEN /\ pc' = [pc EXCEPT ![c] = "recv"]
               /\ buffer' = [buffer EXCEPT ![c] = r.remaining]
               /\ UNCHANGED <<frame, extracted>>
          ELSE /\ pc' = [pc EXCEPT ![c] = "handle"]
               /\ frame' = [frame EXCEPT ![c] = r.frame]
               /\ extracted' = [extracted EXCEPT ![c] = Append(@, r.frame)]
               /\ Len(extracted[c]) < 3
               /\ UNCHANGED buffer
    /\ UNCHANGED <<mgrVars, timeouts, wire, parsed, ack, pend, sock, parts, split, storeVars>>

\* one pass of the inner `while True`: frame, remaining = _extract_frame(buffer)
Extract(c) ==
    /\ pc[c] = "extract"
    /\ LET r == _extract_frame(buffer[c]) IN
          /\ buffer' = [buffer EXCEPT ![c] = r.remaining]
          /\ IF r.frame = <<>>
             THEN /\ pc' = [pc EXCEPT ![c] = "recv"]
                  /\ UNCHANGED <<frame, extracted>>
             ELSE /\ pc' = [pc EXCEPT ![c] = "handle"]
                  /\ frame' = [frame EXCEPT ![c] = r.frame]
                  /\ extracted' = [extracted EXCEPT ![c] = Append(@, r.frame)]
    /\ UNCHANGED <<mgrVars, timeouts, wire, parsed, ack, pend, sock, parts, split, storeVars>>

\* the ACK _handle_frame builds after a successful dispatch
SuccessAck(pf, now) ==
    build_ack_frame(pf.cmd_id, pf.packet_type, pf.frame_no, TRUE, 0, now)

\* the ACK _handle_frame builds in its except branches
FailureAck(header_info, now) ==
    build_ack_frame(header_info.cmd_id, header_info.packet_type, header_info.frame_no,
                    FALSE, 0, now)

\* variant of _dispatch_payload: the line temperature branch is missing
Dispatch_skip(s, payload) ==
    CASE payload.kind = "tower_tilt" -> add_tower_tilt(s, payload)
      [] payload.kind = "heartbeat" -> add_heartbeat(s, payload)
      [] OTHER -> s

\* _dispatch_payload for the payloads whose store method is one locked block
Dispatch(s, payload) ==
    CASE payload.kind = "tower_tilt" -> add_tower_tilt(s, payload)
      [] payload.kind = "line_temperature" -> add_line_temperature(s, payload)
      [] payload.kind = "heartbeat" -> add_heartbeat(s, payload)
      [] OTHER -> s

\* variant of _handle_frame: no except clause, so a protocol error leaves
\* handle() through its outer `except Exception` and the connection ends
HandleFrame_raises(c) ==
    /\ pc[c] = "handle"
    /\ LET res == parse_uplink_frame(frame[c]) IN
       IF res.err = NoError
       THEN IF res.value.payload.kind = "weather"
            THEN /\ pend' = [pend EXCEPT ![c] =
                        NewStoredRecord(store, res.value.payload, res.value.frame_no)]
                 /\ parsed' = [parsed EXCEPT ![c] = res.value]
                 /\ pc' = [pc EXCEPT ![c] = "append"]
                 /\ UNCHANGED <<ack, frame, store, histVars>>
            ELSE /\ store' = Dispatch(store, res.value.payload)
                 /\ IngestReturns(res.value.payload, store.line_temp_alert_threshold)
                 /\ \E now \in Clock : ack' = [ack EXCEPT ![c] = SuccessAck(res.value, now)]
                 /\ pc' = [pc EXCEPT ![c] = "send"]
                 /\ UNCHANGED <<pend, parsed, frame>>
       ELSE /\ pc' = [pc EXCEPT ![c] = "closed"]
            /\ frame' = [frame EXCEPT ![c] = <<>>]
            /\ UNCHANGED <<pend, parsed, ack, store, histVars>>
    /\ UNCHANGED <<mgrVars, timeouts, wire, buffer, sock, extracted, parts, split, ingested, reconfigured, ret,
                   lockVars>>

\* _handle_frame up to the point where the ACK is built, or, for a weather
\* payload, up to the point where add_weather has built its record
HandleFrame(c) ==
    /\ pc[c] = "handle"
    /\ LET header_info == _safe_peek_header(frame[c])
           res == parse_uplink_frame(frame[c])
       IN
       IF res.err = NoError
       THEN IF res.value.payload.kind = "weather"
            THEN /\ pend' = [pend EXCEPT ![c] =
                        NewStoredRecord(store, res.value.payload, res.value.frame_no)]
                 /\ parsed' = [parsed EXCEPT ![c] = res.value]
                 /\ pc' = [pc EXCEPT ![c] = "append"]
                 /\ UNCHANGED <<ack, frame, store, histVars>>
            ELSE /\ store' = Dispatch(store, res.value.payload)
                 /\ IngestReturns(res.value.payload, store.line_temp_alert_threshold)
                 /\ \E now \in Clock : ack' = [ack EXCEPT ![c] = SuccessAck(res.value, now)]
                 /\ pc' = [pc EXCEPT ![c] = "send"]
                 /\ UNCHANGED <<pend, parsed, frame>>
       ELSE IF header_info # <<>>
            THEN /\ \E now \in Clock :
                        ack' = [ack EXCEPT ![c] = FailureAck(header_info[1], now)]
                 /\ pc' = [pc EXCEPT ![c] = "send"]
                 /\ UNCHANGED <<pend, parsed, frame, store, histVars>>
            ELSE /\ pc' = [pc EXCEPT ![c] = "extract"]
                 /\ frame' = [frame EXCEPT ![c] = <<>>]
                 /\ UNCHANGED <<pend, parsed, ack, store, histVars>>
    /\ UNCHANGED <<mgrVars, timeouts, wire, buffer, sock, extracted, parts, split, ingested, reconfigured, ret,
                   lockVars>>

\* add_weather's locked block, then the success ACK is built
AppendWeather(c) ==
    /\ pc[c] = "append"
    /\ store' = AppendStoredRecord(store, pend[c])
    /\ ingested' = Append(ingested, pend[c])
    /\ pend' = [pend EXCEPT ![c] = NoRecord]
    /\ \E now \in Clock : ack' = [ack EXCEPT ![c] = SuccessAck(parsed[c], now)]
    /\ parsed' = [parsed EXCEPT ![c] = NoPayload]
    /\ pc' = [pc EXCEPT ![c] = "send"]
    /\ IngestReturns(pend[c].raw_payload, store.line_temp_alert_threshold)
    /\ UNCHANGED <<mgrVars, timeouts, wire, buffer, frame, sock, extracted, parts, split, reconfigured, ret,
                   lockVars>>

\* number of sendall calls that raised, over all connections
RECURSIVE SumOver(_, _)
SumOver(f, S) ==
    IF S = {} THEN 0
    ELSE LET x == CHOOSE y \in S : TRUE IN f[x] + SumOver(f, S \ {x})
SendFails ==
    SumOver([c \in Conns |-> Len(SelectSeq(sock[c], LAMBDA call : ~call.sent))], Conns)

\* variant of SendAck: no `except` around sendall, so its exception leaves
\* _handle_frame and handle() and the connection ends
SendAck_raises(c) ==
    /\ pc[c] = "send"
    /\ \E sent \in BOOLEAN :
          /\ ~sent => SendFails < MaxSendFails
          /\ sock' = [sock EXCEPT ![c] = Append(@, [data |-> ack[c], sent |-> sent])]
          /\ pc' = [pc EXCEPT ![c] = IF sent THEN "extract" ELSE "closed"]
    /\ ack' = [ack EXCEPT ![c] = <<>>]
    /\ frame' = [frame EXCEPT ![c] = <<>>]
    /\ UNCHANGED <<mgrVars, timeouts, wire, buffer, parsed, pend, extracted, parts, split, storeVars>>

\* self.request.sendall(ack): it writes the ACK, or raises and is logged
SendAck(c) ==
    /\ pc[c] = "send"
    /\ \E sent \in BOOLEAN :
          /\ ~sent => SendFails < MaxSendFails
          /\ sock' = [sock EXCEPT ![c] = Append(@, [data |-> ack[c], sent |-> sent])]
    /\ ack' = [ack EXCEPT ![c] = <<>>]
    /\ frame' = [frame EXCEPT ![c] = <<>>]
    /\ pc' = [pc EXCEPT ![c] = "extract"]
    /\ UNCHANGED <<mgrVars, timeouts, wire, buffer, parsed, pend, extracted, parts, split, storeVars>>

-----------------------------------------------------------------------------
(* The sensors' samples and the byte streams a peer sends.                 *)

Str_WS001 == <<87, 83, 45, 48, 48, 49>>         \* "WS-001"
Str_LT501 == <<76, 84, 45, 53, 48, 49>>         \* "LT-501"
Str_TT301 == <<84, 84, 45, 51, 48, 49>>         \* "TT-301"
Str_HBCTRL01 == <<72, 66, 45, 67, 84, 82, 76, 45, 48, 49>>   \* "HB-CTRL-01"

\* f32 bit patterns of the sample values
RECURSIVE Log2(_)
Log2(n) == IF n < 2 THEN 0 ELSE 1 + Log2(n \div 2)
\* struct.pack("<f", float(n)) as a bit pattern, for an integer 1 <= n < 2^24
F32OfInt(n) == LET e == Log2(n) IN (127 + e) * 2^23 + (n - 2^e) * 2^(23 - e)
F32_80 == F32OfInt(80)
F32_85 == F32OfInt(85)
F32_50 == F32OfInt(50)

\* generate_default_bundle's weather sample, for a component and a time
WeatherSample(component_id, time_stamp) ==
    [ component_id |-> component_id, time_stamp |-> time_stamp,
      average_wind_speed |-> 1084647014,          \* 5.2
      average_wind_direction |-> 135,
      max_wind_speed |-> 1090623898,              \* 8.1
      extreme_wind_speed |-> 1095027917,          \* 12.3
      standard_wind_speed |-> 1067030938,         \* 1.2
      air_temperature |-> 1104412672,             \* 26.5
      humidity_tenths |-> 680,                    \* 68.0 %RH
      air_pressure |-> 1149006643,                \* 1009.8
      precipitation |-> 1058642330,               \* 0.6
      precipitation_intensity |-> 1017370378,     \* 0.02
      radiation_intensity |-> 820 ]

TowerTiltSample(component_id, time_stamp) ==
    [ component_id |-> component_id, time_stamp |-> time_stamp,
      inclination |-> 1076258406, inclination_x |-> 1067030938,
      inclination_y |-> 1075000115, angle_x |-> 1051931443, angle_y |-> 1049247089 ]

LineTemperatureSample(component_id, time_stamp, line_temperature) ==
    [ component_id |-> component_id, unit_sum |-> 3, unit_no |-> 1,
      time_stamp |-> time_stamp, line_temperature |-> line_temperature ]

HeartbeatSample(cmd_id, clocktime_stamp) ==
    [ cmd_id |-> cmd_id, clocktime_stamp |-> clocktime_stamp,
      battery_voltage |-> 1081920717, operation_temperature |-> 1107951616,
      battery_capacity |-> 1118437376, floating_charge |-> 1,
      total_working_time |-> 86400, working_time |-> 21600, connection_state |-> 0,
      send_flow |-> 123456, receive_flow |-> 234567,
      protocol_version |-> <<1, 2, 4, 10>> ]

\* s with the byte at 1-based position i replaced
SetByte(s, i, b) == [s EXCEPT ![i] = b]

\* Content of a frame the builder made
ContentOf(fr) == Slice(fr, 24, Len(fr) - 3)

\* valid uplink frames
FrameW7 == build_weather(WeatherSample(Str_LT501, 1700000000), 7, Str_WS001)
FrameLT == build_line_temperature(
               LineTemperatureSample(Str_LT501, 1699999900, F32_85), 2, Str_LT501)
FrameLT50 == build_line_temperature(
               LineTemperatureSample(Str_LT501, 1699999960, F32_50), 8, Str_LT501)
FrameTT == build_tower_tilt(TowerTiltSample(Str_TT301, 1699999700), 3, Str_TT301)
FrameHB == build_heartbeat(HeartbeatSample(Str_HBCTRL01, 1700000000), 9)
ValidFrames == {FrameW7, FrameLT, FrameLT50, FrameTT, FrameHB}

\* a heartbeat frame whose Content is the first n bytes of a heartbeat
HeartbeatOfSize(n) ==
    _build_frame(Str_HBCTRL01, PACKET_TYPE_HEARTBEAT, 12, Take(ContentOf(FrameHB), n))

\* a frame of a peer that does not use the builder: any 17 Cmd_Id bytes
RawFrame(cmd_id_bytes, packet_type, frame_no, content) ==
    LET body == PackU16(Len(content)) \o cmd_id_bytes
                  \o <<FRAME_TYPE_UPLINK, packet_type, frame_no>> \o content
    IN  SYNC_BYTES \o body \o PackU16(crc16_modbus(body)) \o <<END_BYTE>>

\* frames that the extractor yields and decode rejects
FrameBadCrc == LET f == build_weather(WeatherSample(Str_LT501, 1700000000), 5, Str_WS001)
               IN  SetByte(f, Len(f) - 2, (f[Len(f) - 2] + 1) % 256)
FrameBadEnd == LET f == build_line_temperature(
                            LineTemperatureSample(Str_LT501, 1699999900, F32_85), 6, Str_LT501)
               IN  SetByte(f, Len(f), 0)
FrameUnsupported == _build_frame(Str_WS001, 119, 4, <<0>>)                 \* type 0x77
FrameUnsupportedRaw ==                         \* type 0x77, Cmd_Id "W", 0xC8, "S"
    RawFrame(LJustZero(<<87, 200, 83>>, 17), 119, 11, <<0>>)
FrameTruncated == _build_frame(Str_WS001, PACKET_TYPE_WEATHER, 10, <<1, 2, 3>>)
FailingFrames == {FrameBadCrc, FrameBadEnd, FrameUnsupported, FrameUnsupportedRaw,
                  FrameTruncated}

\* bytes that belong to no frame: without a sync pair; with a sync pair and a
\* length the extractor skips; with a sync pair and a length it accepts
GarbageNoSync == { <<0>>, <<90>>, <<165, 90>>, <<17, 34, 51, 68, 85>> }
GarbageSpurious == { <<90, 165>>, <<90, 165, 0, 0>>, <<90, 165, 255, 255>> }
GarbageFramed == { <<90, 165, 1, 0>> }
Garbage == GarbageNoSync \cup GarbageSpurious \cup GarbageFramed

RECURSIVE Flatten(_)
Flatten(ps) == IF ps = <<>> THEN <<>> ELSE Head(ps) \o Flatten(Tail(ps))

\* what the peer of a connection sends during its life, as a list of parts
Streams ==
    {<<f>> : f \in ValidFrames \cup FailingFrames}
    \cup {<<FrameLT, g, FrameLT50>> : g \in GarbageNoSync \cup GarbageFramed}
    \cup {<<g, FrameLT>> : g \in GarbageSpurious}
    \cup {<<b, FrameLT>> : b \in FailingFrames}
    \cup {<<FrameLT, FrameW7>>, <<FrameW7, FrameHB>>, <<<<17, 90>>, FrameTT>>,
          <<FrameUnsupported, <<17, 34, 51, 68, 85>>, FrameLT>>}
    \cup {<<HeartbeatOfSize(33)>>, <<HeartbeatOfSize(34)>>,
          <<HeartbeatOfSize(37), FrameHB>>}

\* the streams of the two connections of one run: one sensor alone, or two
\* sensors whose handler threads interleave
StreamPairs ==
    {<<ps, <<>>>> : ps \in Streams} \cup {<<<<FrameUnsupported>>, <<FrameLT>>>>}

\* ring capacity of the store the server is started with
RingCap == 2

\* threading.RLock(): not owned
FreeLock == [owner |-> 0, depth |-> 0]

\* _ServerManager(): the lock is free (0), _server and _thread are None (0)
_ServerManager == [_lock |-> 0, _server |-> 0, _thread |-> 0]

\* an application thread that has made no call on the manager yet: op is
\* the method of its current or last call, pc its position in it, args the
\* (host, port, store) of a start call, server the call's local `server`,
\* outcome how its last finished call ended, made the calls it has started
NoCall == [op |-> "none", pc |-> "idle", args |-> <<>>, server |-> 0,
           outcome |-> "none", made |-> 0]

\* no add_* call has returned yet, no thread is inside a store method, the
\* server manager was built at import and none of its methods was called
AuxInit ==
    /\ alerted = EmptyDict
    /\ completed = <<>>
    /\ unseen = [t \in Consumers |-> [since |-> FALSE, before |-> FALSE]]
    /\ lock = FreeLock
    /\ prog = [t \in Threads |-> <<>>]
    /\ access = <<>>
    /\ manager = _ServerManager
    /\ servers = <<>>
    /\ calls = [t \in Apps |-> NoCall]

-----------------------------------------------------------------------------
(* Spec: the sensor connections served by the TCP server, one handler     *)
(* thread each, sharing one store.  A connection whose stream is empty is  *)
(* never made.                                                             *)

Init ==
    /\ \E pair \in StreamPairs :
          /\ parts = [c \in Conns |-> pair[c]]
          /\ wire = [c \in Conns |-> Flatten(pair[c])]
          /\ pc = [c \in Conns |-> IF pair[c] = <<>> THEN "closed" ELSE "recv"]
    /\ split = [c \in Conns |-> FALSE]
    /\ timeouts = [c \in Conns |-> <<>>]
    /\ buffer = [c \in Conns |-> <<>>]
    /\ frame = [c \in Conns |-> <<>>]
    /\ parsed = [c \in Conns |-> NoPayload]
    /\ ack = [c \in Conns |-> <<>>]
    /\ pend = [t \in Threads |-> NoRecord]
    /\ sock = [c \in Conns |-> <<>>]
    /\ extracted = [c \in Conns |-> <<>>]
    /\ store = I1DataStore(RingCap, F32_80, 600)
    /\ ingested = <<>>
    /\ reconfigured = FALSE
    /\ ret = [t \in Callers \cup Consumers |-> <<>>]
    /\ AuxInit

Next ==
    \E c \in Conns :
        \/ Recv(c)
        \/ RecvEof(c)
        \/ Extract(c)
        \/ HandleFrame(c)
        \/ AppendWeather(c)
        \/ SendAck(c)

Spec == Init /\ [][Next]_vars

-----------------------------------------------------------------------------
(* What a run shows of a connection.                                       *)

\* fields of an ACK frame
AckCmdId(a) == SubSeq(a, 5, 21)
AckPacketType(a) == a[23]
AckFrameNo(a) == a[24]
AckStatus(a) == a[25]

\* the handler of c holds a frame it has extracted and not yet answered
InFlight(c) == pc[c] \in {"handle", "append", "send"}
\* the handler of c has read and processed every byte its peer sends
Drained(c) == wire[c] = <<>> /\ pc[c] \in {"recv", "closed"}
\* the ACKs the peer of c has received
Written(c) ==
    LET ok == SelectSeq(sock[c], LAMBDA call : call.sent)
    IN  [k \in 1..Len(ok) |-> ok[k].data]
\* success ACKs the handler of c has built so far
SuccessAcks(c) ==
    Len(SelectSeq(sock[c], LAMBDA call : AckStatus(call.data) = 255))
      + (IF pc[c] = "send" /\ AckStatus(ack[c]) = 255 THEN 1 ELSE 0)
\* the store the server starts with
ServerStore == I1DataStore(RingCap, F32_80, 600)
\* the store after the payload of a decoded frame is ingested with no other
\* thread running
Ingest(s, pf) ==
    IF pf.payload.kind = "weather"
    THEN AppendStoredRecord(s, NewStoredRecord(s, pf.payload, pf.frame_no))
    ELSE Dispatch(s, pf.payload)
\* store s holds the payload of the decoded frame pf
Holds(s, pf) ==
    CASE pf.payload.kind = "weather" ->
           \E i \in 1..Len(s.weather_records) :
               /\ s.weather_records[i].frame_no = pf.frame_no
               /\ s.weather_records[i].raw_payload = pf.payload
      [] pf.payload.kind = "line_temperature" ->
           /\ pf.payload.component_id \in DOMAIN s.line_temp_alerts
           /\ s.line_temp_alerts[pf.payload.component_id][1] = pf.payload.time_stamp
      [] pf.payload.kind = "tower_tilt" ->
           /\ pf.payload.component_id \in DOMAIN s.latest_tower_tilt
           /\ s.latest_tower_tilt[pf.payload.component_id] = pf.payload
      [] pf.payload.kind = "heartbeat" -> s.latest_heartbeat = pf.payload
      [] OTHER -> FALSE
\* the single connection of the run
Alone(c) == \A d \in Conns \ {c} : parts[d] = <<>>

-----------------------------------------------------------------------------
(* C1 *)

\* C1: on each connection the handler calls sendall with one ACK frame for
\* every frame the extractor has yielded, never none and never two, whether
\* the frame decodes or not; when no sendall raised, the peer has received
\* exactly one ACK per extracted frame.  Bytes the extractor discards cause
\* nothing: there are never more ACKs or store writes than extracted frames,
\* and while nothing has been extracted the store is as it started.
C1_OneAckPerFrame ==
    /\ \A c \in Conns :
          /\ Len(sock[c]) = Len(extracted[c]) - (IF InFlight(c) THEN 1 ELSE 0)
          /\ \A k \in 1..Len(sock[c]) :
                /\ Len(sock[c][k].data) >= 2 + 2 + 17 + 1 + 1 + 1 + 1 + 2 + 1
                /\ sock[c][k].data[22] = FRAME_TYPE_DOWNLINK
          /\ SendFails = 0 => Len(Written(c)) = Len(sock[c])
    /\ store.update_counter <= SumOver([c \in Conns |-> Len(extracted[c])], Conns)
    /\ (\A c \in Conns : extracted[c] = <<>>) => store = ServerStore

\* a failing frame, garbage and a valid frame have all been processed
C1_Witness ==
    /\ parts[1] = <<FrameUnsupported, <<17, 34, 51, 68, 85>>, FrameLT>>
    /\ Drained(1)
    /\ extracted[1] = <<FrameUnsupported, FrameLT>>
    /\ Len(Written(1)) = 2
    /\ store.update_counter = 1

-----------------------------------------------------------------------------
(* C2 *)

\* the statement of framing resilience for the garbage strings in G
Resilient(G) ==
    \A c \in Conns : \A g \in G :
        parts[c] = <<FrameLT, g, FrameLT50>> =>
            /\ \A k \in 1..Len(sock[c]) : AckStatus(sock[c][k].data) = 255
            /\ pc[c] = "send" => AckStatus(ack[c]) = 255
            /\ Drained(c) =>
                  /\ extracted[c] = <<FrameLT, FrameLT50>>
                  /\ Len(sock[c]) = 2
                  /\ store = Ingest(Ingest(ServerStore, parse_uplink_frame(FrameLT).value),
                                    parse_uplink_frame(FrameLT50).value)

-----------------------------------------------------------------------------
(* C3 *)

\* C3: a single valid frame arrives alone on a connection, cut into recv
\* chunks at any boundaries.  Until its last byte has arrived no frame is
\* extracted, no ACK is built or sent and the store is as it started; once the
\* handler has processed it there is exactly one sendall call, with the
\* success ACK of the frame, and the store is the one that ingesting the frame
\* once gives, whatever the chunks were.
C3_SplitDelivery ==
    \A c \in Conns : \A f \in ValidFrames :
        (parts[c] = <<f>> /\ Alone(c)) =>
            /\ wire[c] # <<>> =>
                  /\ extracted[c] = <<>> /\ sock[c] = <<>> /\ ack[c] = <<>>
                  /\ pc[c] \in {"recv", "extract"}
                  /\ store = ServerStore
            /\ Len(sock[c]) <= 1
            /\ Drained(c) =>
                  LET pf == parse_uplink_frame(f).value IN
                  /\ extracted[c] = <<f>>
                  /\ Len(sock[c]) = 1
                  /\ \E now \in Clock : sock[c][1].data = SuccessAck(pf, now)
                  /\ AckStatus(sock[c][1].data) = 255
                  /\ store = Ingest(ServerStore, pf)
                  /\ store.update_counter = 1

\* the weather frame came in several chunks and is stored and answered
C3_Witness ==
    /\ parts[1] = <<FrameW7>>
    /\ Drained(1)
    /\ Len(store.weather_records) = 1
    /\ store.weather_records[1].frame_no = 7
    /\ Len(Written(1)) = 1
    /\ split[1]

-----------------------------------------------------------------------------
(* C4 *)

\* the handler of c takes, in this step, a step of handling the frame it holds
Handles(c) == pc[c] \in {"handle", "append", "send"} /\ pc'[c] # pc[c]

\* fr has Packet_Type 0x31 and fails the CRC check of the decoder
BadCrcWeather(fr) ==
    /\ Len(fr) >= 24
    /\ fr[23] = PACKET_TYPE_WEATHER
    /\ parse_uplink_frame(fr).err.cls = "CRCMismatchError"

\* C4: when the frame a handler holds has Packet_Type 0x31 and fails the CRC
\* check, no step of handling it changes the store (ring, tilt cache,
\* heartbeat cache, alert table, update counter), the ACK the handler builds
\* has status 0x00, Packet_Type 0xB1 and the Frame_No of the frame, and that
\* ACK is the one passed to sendall.
C4_BadCrc ==
    [][\A c \in Conns :
          (Handles(c) /\ BadCrcWeather(frame[c])) =>
              /\ store' = store
              /\ pc[c] = "handle" =>
                    /\ pc'[c] = "send"
                    /\ AckStatus(ack'[c]) = 0
                    /\ AckPacketType(ack'[c]) = PACKET_TYPE_WEATHER_ACK
                    /\ AckFrameNo(ack'[c]) = frame[c][24]
              /\ pc[c] = "send" =>
                    /\ Len(sock'[c]) = Len(sock[c]) + 1
                    /\ sock'[c][Len(sock'[c])].data = ack[c]
              /\ pc[c] # "append"]_vars

\* the weather frame with the wrong CRC has been answered with a failure ACK
C4_Witness ==
    /\ extracted[1] = <<FrameBadCrc>>
    /\ Len(Written(1)) = 1
    /\ AckStatus(Written(1)[1]) = 0
    /\ AckPacketType(Written(1)[1]) = 177
    /\ AckFrameNo(Written(1)[1]) = 5
    /\ store = ServerStore

-----------------------------------------------------------------------------
(* C5 *)

\* fr passes the sync, length, end and CRC checks and has a Packet_Type the
\* decoder does not know
Unsupported(fr) ==
    /\ Len(fr) >= 24
    /\ fr[23] \notin {PACKET_TYPE_WEATHER, PACKET_TYPE_TOWER_TILT,
                      PACKET_TYPE_LINE_TEMPERATURE, PACKET_TYPE_HEARTBEAT}
    /\ parse_uplink_frame(fr).err.cls = "UnsupportedPacketTypeError"

\* the Cmd_Id field of an ACK whose Cmd_Id is that of fr: the 17 bytes of
\* fr's field (exact); or those bytes with the trailing zeros stripped, the
\* bytes above 0x7F dropped, and padded with zeros again
CmdIdField(fr) == SubSeq(fr, 5, 21)
CmdIdAscii(fr) == LJustZero(SelectSeq(RStripZero(SubSeq(fr, 5, 21)), IsAscii), 17)

\* what C5 says of the steps that handle an unsupported frame; the ACK is to
\* carry the exact Cmd_Id field of the frame, or the field as decoded
UnsupportedAnswered(exact) ==
    \A c \in Conns :
        (Handles(c) /\ Unsupported(frame[c])) =>
            /\ store' = store
            /\ pc[c] = "handle" =>
                  /\ pc'[c] = "send"
                  /\ AckStatus(ack'[c]) = 0
                  /\ AckPacketType(ack'[c]) = frame[c][23]
                  /\ AckFrameNo(ack'[c]) = frame[c][24]
                  /\ AckCmdId(ack'[c]) =
                        IF exact THEN CmdIdField(frame[c]) ELSE CmdIdAscii(frame[c])
            /\ pc[c] = "send" =>
                  /\ Len(sock'[c]) = Len(sock[c]) + 1
                  /\ sock'[c][Len(sock'[c])].data = ack[c]
            /\ pc[c] # "append"

\* C5 as stated: a frame that passes the sync, length, end and CRC checks and
\* has an unsupported Packet_Type is answered with a failure ACK (status
\* 0x00) whose Packet_Type is the received one, whose Frame_No is the frame's
\* and whose Cmd_Id is the Cmd_Id field of the frame; the store is unchanged.
C5_CmdIdOfFrame == [][UnsupportedAnswered(TRUE)]_vars

\* C5, amended: the same, with the ACK's Cmd_Id being the frame's Cmd_Id
\* field as the decoder reads it: trailing zero bytes stripped, bytes above
\* 0x7F dropped, padded with zeros to 17 bytes (the field itself when it is
\* ASCII padded with zeros).
C5_CmdIdAsDecoded == [][UnsupportedAnswered(FALSE)]_vars

\* the frame of type 0x77 has been answered with a failure ACK of type 0x77
C5_Witness ==
    /\ extracted[1] = <<FrameUnsupportedRaw>>
    /\ Len(Written(1)) = 1
    /\ AckStatus(Written(1)[1]) = 0
    /\ AckPacketType(Written(1)[1]) = 119
    /\ AckFrameNo(Written(1)[1]) = 11
    /\ AckCmdId(Written(1)[1]) = LJustZero(<<87, 83>>, 17)
    /\ store = ServerStore

-----------------------------------------------------------------------------
(* C6 *)

\* C6: a handler leaves its loop only when its peer has closed and every
\* byte has been read, so never because of a frame that fails decoding; and
\* when a frame that fails decoding (bad end byte, CRC mismatch, unsupported
\* type, content too short) is followed by a valid frame, both are extracted,
\* the first is answered with status 0x00, the second is decoded, stored and
\* answered with status 0xFF.
C6_ErrorKeepsConnection ==
    \A c \in Conns :
        /\ pc[c] = "closed" => wire[c] = <<>> /\ ~InFlight(c)
        /\ \A b \in FailingFrames :
              (parts[c] = <<b, FrameLT>> /\ Drained(c)) =>
                  /\ extracted[c] = <<b, FrameLT>>
                  /\ Len(sock[c]) = 2
                  /\ AckStatus(sock[c][1].data) = 0
                  /\ AckStatus(sock[c][2].data) = 255
                  /\ AckPacketType(sock[c][2].data) = PACKET_TYPE_LINE_TEMPERATURE_ACK
                  /\ AckFrameNo(sock[c][2].data) = FrameLT[24]
                  /\ store = Ingest(ServerStore, parse_uplink_frame(FrameLT).value)

\* after the frame with the bad end byte the line temperature frame is stored
C6_Witness ==
    /\ parts[1] = <<FrameBadEnd, FrameLT>>
    /\ Drained(1)
    /\ Len(Written(1)) = 2
    /\ AckStatus(Written(1)[1]) = 0
    /\ AckStatus(Written(1)[2]) = 255
    /\ Str_LT501 \in DOMAIN store.line_temp_alerts
    /\ store.line_temp_alerts[Str_LT501] = <<1699999900, TRUE>>

-----------------------------------------------------------------------------
(* C7 *)

\* C7: on each connection the k-th sendall call carries the ACK of the k-th
\* extracted frame: it has that frame's Frame_No, and so has the ACK the
\* handler is about to send; the ACKs the peer receives are those calls' ACKs
\* in the same order, less the calls that raised.
C7_AckOrder ==
    \A c \in Conns :
        /\ Len(sock[c]) <= Len(extracted[c])
        /\ \A k \in 1..Len(sock[c]) : AckFrameNo(sock[c][k].data) = extracted[c][k][24]
        /\ pc[c] = "send" =>
              /\ Len(sock[c]) < Len(extracted[c])
              /\ AckFrameNo(ack[c]) = extracted[c][Len(sock[c]) + 1][24]
        /\ SendFails = 0 =>
              Written(c) = [k \in 1..Len(sock[c]) |-> sock[c][k].data]

\* two frames with Frame_No 6 and 2 have been answered in that order
C7_Witness ==
    /\ parts[1] = <<FrameBadEnd, FrameLT>>
    /\ Len(Written(1)) = 2
    /\ AckFrameNo(Written(1)[1]) = 6
    /\ AckFrameNo(Written(1)[2]) = 2
    /\ extracted[1][1][24] = 6
    /\ extracted[1][2][24] = 2

-----------------------------------------------------------------------------
(* C8 *)

\* C8: a handler works on one frame at a time: while it receives or extracts
\* it holds no frame, no record and no ACK of an earlier frame, so the next
\* frame is extracted only after the one before is written and answered;
\* when it is about to send a success ACK (status 0xFF) the store already
\* holds the payload of the frame the ACK answers; and there are exactly as
\* many store writes as success ACKs built.
C8_WriteBeforeAck ==
    /\ \A c \in Conns :
          /\ ~InFlight(c) => frame[c] = <<>> /\ ack[c] = <<>> /\ pend[c] = NoRecord
          /\ pc[c] = "handle" => ack[c] = <<>> /\ pend[c] = NoRecord
          /\ (pc[c] = "send" /\ AckStatus(ack[c]) = 255) =>
                LET res == parse_uplink_frame(frame[c]) IN
                /\ res.err = NoError
                /\ Holds(store, res.value)
                /\ AckFrameNo(ack[c]) = res.value.frame_no
    /\ store.update_counter = SumOver([c \in Conns |-> SuccessAcks(c)], Conns)

\* the success ACK of the weather frame is about to be sent, its record stored
C8_Witness ==
    /\ pc[1] = "send"
    /\ frame[1] = FrameW7
    /\ AckStatus(ack[1]) = 255
    /\ Len(store.weather_records) = 1
    /\ store.weather_records[1].frame_no = 7
    /\ sock[1] = <<>>

-----------------------------------------------------------------------------------------------------------------------------------------------------
(* SpecStore: the threads that call the methods of one I1DataStore.  The   *)
(* handler threads of the connections are in _dispatch_payload with a      *)
(* decoded payload and call the add_* methods (framing and ACKs are left   *)
(* to Spec); the callers are the HTTP layer and the initialisation, which  *)
(* call configure and the read methods.  A call to add_weather takes two   *)
(* steps, the part before the lock and the part under it; every other      *)
(* method is one locked block.                                             *)

\* calls of the add_* methods in one run
MaxWrites == 3
\* the values of max_records the store is built and configured with
Caps == {0, 1, 2}

\* the payloads the handlers dispatch, as the decoder builds them
PayloadOf(fr) == parse_uplink_frame(fr).value.payload
WeatherPayloads == { PayloadOf(FrameW7) }
LineTemperaturePayloads == { PayloadOf(FrameLT), PayloadOf(FrameLT50) }
TowerTiltPayloads == { PayloadOf(FrameTT) }
HeartbeatPayloads == { PayloadOf(FrameHB) }

\* Optional arguments of configure
OptMaxRecords == {<<>>} \cup {<<m>> : m \in Caps}
OptThreshold == {<<>>, <<F32_50>>}
OptTimeout == {<<>>, <<0>>}

\* add_weather calls begun so far, and add_* calls begun so far
Begun == Len(ingested) + Cardinality({c \in Conns : IsStoredRecord(pend[c])})
Writes == store.update_counter + Cardinality({c \in Conns : pend[c] # NoRecord})

\* add_weather(payload, frame_no), lines 90-107: the record is built.  The
\* frames of a run are numbered in the order their ingests begin.
AddWeatherBuild(c, payload) ==
    /\ pend[c] = NoRecord
    /\ Writes < MaxWrites
    /\ pend' = [pend EXCEPT ![c] = NewStoredRecord(store, payload, (Begun + 1) % 256)]
    /\ UNCHANGED <<mgrVars, connVars, storeVars>>

\* add_weather, lines 108-112: append under the lock
AddWeatherAppend(c) ==
    /\ IsStoredRecord(pend[c])
    /\ store' = AppendStoredRecord(store, pend[c])
    /\ ingested' = Append(ingested, pend[c])
    /\ pend' = [pend EXCEPT ![c] = NoRecord]
    /\ IngestReturns(pend[c].raw_payload, store.line_temp_alert_threshold)
    /\ UNCHANGED <<mgrVars, connVars, reconfigured, ret, lockVars>>

\* add_line_temperature(payload), lines 115-116: before the lock
AddLineTemperatureBegin(c, payload) ==
    /\ pend[c] = NoRecord
    /\ Writes < MaxWrites
    /\ pend' = [pend EXCEPT ![c] = NewLineTempAlert(store, payload)]
    /\ UNCHANGED <<mgrVars, connVars, storeVars>>

\* add_line_temperature, lines 117-120: under the lock
AddLineTemperatureStore(c) ==
    /\ IsLineTempAlert(pend[c])
    /\ store' = StoreLineTempAlert(store, pend[c])
    /\ pend' = [pend EXCEPT ![c] = NoRecord]
    /\ IngestReturns(pend[c].payload, pend[c].threshold)
    /\ UNCHANGED <<mgrVars, connVars, ingested, reconfigured, ret, lockVars>>

AddTowerTilt(c, payload) ==
    /\ pend[c] = NoRecord
    /\ Writes < MaxWrites
    /\ store' = add_tower_tilt(store, payload)
    /\ IngestReturns(payload, store.line_temp_alert_threshold)
    /\ UNCHANGED <<mgrVars, connVars, pend, ingested, reconfigured, ret, lockVars>>

AddHeartbeat(c, payload) ==
    /\ pend[c] = NoRecord
    /\ Writes < MaxWrites
    /\ store' = add_heartbeat(store, payload)
    /\ IngestReturns(payload, store.line_temp_alert_threshold)
    /\ UNCHANGED <<mgrVars, connVars, pend, ingested, reconfigured, ret, lockVars>>

\* configure(max_records=..., line_temp_alert_threshold=..., line_temp_alert_timeout=...)
Configure(t, max_records, threshold, timeout) ==
    /\ store' = configure(store, max_records, threshold, timeout)
    /\ reconfigured' = TRUE
    /\ UNCHANGED <<mgrVars, connVars, pend, ingested, ret, histVars, lockVars>>

\* a call of a read method; ret[t] is what it returned, until t's next call
ReadCall(t, method, limit) ==
    /\ ret' = [ret EXCEPT ![t] = [ method |-> method,
                                   result |-> ReadResult(store, method, limit),
                                   mutated |-> FALSE ]]
    /\ UNCHANGED <<mgrVars, connVars, pend, store, ingested, reconfigured, histVars, lockVars>>

\* no connection is open: the handler threads are in _dispatch_payload
ConnsInit ==
    /\ parts = [c \in Conns |-> <<>>]
    /\ wire = [c \in Conns |-> <<>>]
    /\ pc = [c \in Conns |-> "dispatch"]
    /\ split = [c \in Conns |-> FALSE]
    /\ timeouts = [c \in Conns |-> <<>>]
    /\ buffer = [c \in Conns |-> <<>>]
    /\ frame = [c \in Conns |-> <<>>]
    /\ parsed = [c \in Conns |-> NoPayload]
    /\ ack = [c \in Conns |-> <<>>]
    /\ pend = [t \in Threads |-> NoRecord]
    /\ sock = [c \in Conns |-> <<>>]
    /\ extracted = [c \in Conns |-> <<>>]

InitStore ==
    /\ ConnsInit
    /\ \E max_records \in Caps : store = I1DataStore(max_records, F32_80, 600)
    /\ ingested = <<>>
    /\ reconfigured = FALSE
    /\ ret = [t \in Callers \cup Consumers |-> <<>>]
    /\ AuxInit

NextStore ==
    \/ \E c \in Conns :
          \/ \E payload \in WeatherPayloads : AddWeatherBuild(c, payload)
          \/ AddWeatherAppend(c)
          \/ \E payload \in LineTemperaturePayloads : AddLineTemperatureBegin(c, payload)
          \/ AddLineTemperatureStore(c)
          \/ \E payload \in TowerTiltPayloads : AddTowerTilt(c, payload)
          \/ \E payload \in HeartbeatPayloads : AddHeartbeat(c, payload)
    \/ \E t \in Callers :
          \/ \E max_records \in OptMaxRecords, threshold \in OptThreshold,
                timeout \in OptTimeout :
                Configure(t, max_records, threshold, timeout)
          \/ \E method \in {"get_weather_count", "get_all_weather"} : ReadCall(t, method, 0)

SpecStore == InitStore /\ [][NextStore]_vars

-----------------------------------------------------------------------------
(* C9 *)

\* C9: on a store that was built with max_records = M and never configured
\* again, after N weather ingests get_weather_count() is min(N, M) and
\* get_all_weather() is the dicts of the last min(N, M) ingested records in
\* the order they were ingested; for N > M its first is the (N - M + 1)-th.
C9_RingBound ==
    ~reconfigured =>
        LET N == Len(ingested)
            M == store.max_records
            K == Min(N, M)
        IN  /\ get_weather_count(store) = K
            /\ get_all_weather(store) = [i \in 1..K |-> _record_to_dict(ingested[N - K + i])]
            /\ N > M => get_all_weather(store)[1] = _record_to_dict(ingested[N - M + 1])
            /\ \A t \in Callers :
                  /\ (ret[t] # <<>> /\ ret[t].method = "get_weather_count") =>
                        ret[t].result.value <= K
                  /\ (ret[t] # <<>> /\ ret[t].method = "get_all_weather") =>
                        Len(ret[t].result.value) <= K

\* three records went into a ring of two, the second before the first: the
\* first and the third are left
C9_Witness ==
    /\ ~reconfigured
    /\ store.max_records = 2
    /\ Len(ingested) = 3
    /\ ingested[1].frame_no = 2 /\ ingested[2].frame_no = 1 /\ ingested[3].frame_no = 3
    /\ get_weather_count(store) = 2
    /\ get_all_weather(store)[1].frame_no = 1
    /\ get_all_weather(store)[2].frame_no = 3
    /\ ret[3] # <<>>
    /\ ret[3].method = "get_weather_count"
    /\ ret[3].result.value = 2

-----------------------------------------------------------------------------
(* C10 *)

\* C10: in every state, whatever the interleaving of the threads' weather
\* ingests, reads and configure calls, the ring holds at most max_records
\* records and max_records is at least 1.
C10_RingWithinCap ==
    /\ store.max_records >= 1
    /\ Len(store.weather_records) <= store.max_records

\* configure has shrunk the ring to one record after two ingests, and a
\* handler is about to append a third record
C10_Witness ==
    /\ reconfigured
    /\ store.max_records = 1
    /\ Len(store.weather_records) = 1
    /\ Len(ingested) >= 2
    /\ \E c \in Conns : IsStoredRecord(pend[c])

-----------------------------------------------------------------------------
(* SpecFusion: the handler threads ingest weather, line temperature and    *)
(* tower tilt payloads of a few components while a caller reconfigures the *)
(* store.  The weather payload is that of component LT-501 at time         *)
(* 1700000000; the line temperatures are measured 600 s, 601 s and 40 s    *)
(* before it on the same component and 100 s before it on another one.     *)

\* component "LT-501": measured 600 s and 601 s before the weather at 85
\* degrees, 40 s before it at 50 degrees; component "LT-502": 100 s before it
FusionLineTemperatures ==
    LET Str_LT502 == <<76, 84, 45, 53, 48, 50>>
    IN  { PayloadOf(build_line_temperature(
                        LineTemperatureSample(Str_LT501, 1699999400, F32_85), 12, Str_LT501)),
          PayloadOf(build_line_temperature(
                        LineTemperatureSample(Str_LT501, 1699999399, F32_85), 13, Str_LT501)),
          PayloadOf(FrameLT50),
          PayloadOf(build_line_temperature(
                        LineTemperatureSample(Str_LT502, 1699999900, F32_85), 14, Str_LT502)) }

\* component "TT-301" at 1699999700 and 100 s earlier; component "TT-302"
FusionTowerTilts ==
    LET Str_TT302 == <<84, 84, 45, 51, 48, 50>>
    IN  { PayloadOf(FrameTT),
          PayloadOf(build_tower_tilt(TowerTiltSample(Str_TT301, 1699999600), 15, Str_TT301)),
          PayloadOf(build_tower_tilt(TowerTiltSample(Str_TT302, 1699999500), 16, Str_TT302)) }

\* the threads are about to call the methods of a store that was just built
InitFresh ==
    /\ ConnsInit
    /\ store = I1DataStore(RingCap, F32_80, 600)
    /\ ingested = <<>>
    /\ reconfigured = FALSE
    /\ ret = [t \in Callers \cup Consumers |-> <<>>]
    /\ AuxInit

NextFusion ==
    \/ \E c \in Conns :
          \/ \E payload \in WeatherPayloads : AddWeatherBuild(c, payload)
          \/ AddWeatherAppend(c)
          \/ \E payload \in FusionLineTemperatures : AddLineTemperatureBegin(c, payload)
          \/ AddLineTemperatureStore(c)
          \/ \E payload \in FusionTowerTilts : AddTowerTilt(c, payload)
    \/ \E t \in Callers :
          \E max_records \in {<<>>, <<1>>}, threshold \in OptThreshold,
             timeout \in {<<>>, <<601>>} :
             Configure(t, max_records, threshold, timeout)

SpecFusion == InitFresh /\ [][NextFusion]_vars

-----------------------------------------------------------------------------
(* C11 *)

\* the fusion rule in terms of the calls made: 1 when an add_line_temperature
\* call for the component has returned, the last such call carried a
\* temperature at or above the threshold it read, and time_stamp is at most
\* timeout seconds after that call's time_stamp; 0 otherwise
FusionRule(component_id, time_stamp, timeout) ==
    IF /\ component_id \in DOMAIN alerted
       /\ F32GE(alerted[component_id].line_temperature, alerted[component_id].threshold)
       /\ time_stamp - alerted[component_id].time_stamp <= timeout
    THEN 1 ELSE 0

\* thread c takes, in this step, the first step of add_weather
BuildsRecord(c) == pend[c] = NoRecord /\ IsStoredRecord(pend'[c])
\* thread c takes, in this step, the second step of add_weather
AppendsRecord(c) == IsStoredRecord(pend[c]) /\ pend'[c] = NoRecord

\* C11: the wire_foreign_object flag of the record add_weather(payload)
\* builds, appends and returns is 1 if and only if an alert entry exists for
\* payload.component_id, the entry is active (the temperature last ingested
\* for the component was >= the threshold) and payload.time_stamp minus the
\* entry's time stamp is <= the alert timeout; it is 0 when there is no
\* entry, an entry for another component only, an inactive entry, or a
\* difference above the timeout.  The table and the timeout are those the
\* call finds when it computes the flag.
C11_FusionRule ==
    [][\A c \in Conns :
          /\ BuildsRecord(c) =>
                pend'[c].wire_foreign_object =
                    FusionRule(pend'[c].raw_payload.component_id,
                               pend'[c].raw_payload.time_stamp,
                               store.line_temp_alert_timeout)
          /\ AppendsRecord(c) =>
                /\ Len(ingested') = Len(ingested) + 1
                /\ ingested'[Len(ingested')] = pend[c]
                /\ store'.weather_records[Len(store'.weather_records)] = pend[c]]_vars

\* a line temperature of 85 degrees was ingested and then the weather of the
\* same component measured exactly 600 s later, with the timeout at 600 s:
\* the record in the ring has flag 1
C11_Witness ==
    /\ ~reconfigured
    /\ completed = <<"line_temperature", "weather">>
    /\ Str_LT501 \in DOMAIN alerted
    /\ alerted[Str_LT501].time_stamp = 1699999400
    /\ store.line_temp_alert_timeout = 600
    /\ Len(store.weather_records) = 1
    /\ store.weather_records[1].raw_payload.time_stamp = 1700000000
    /\ store.weather_records[1].wire_foreign_object = 1

-----------------------------------------------------------------------------
(* C12 *)

\* the flag of the record of ring `records` whose frame number is frame_no
\* (the frames of a run have distinct numbers)
FlagsOf(records, frame_no) ==
    { records[i].wire_foreign_object :
          i \in {j \in 1..Len(records) : records[j].frame_no = frame_no} }

\* C12: the wire_foreign_object of every record in the ring is 0 or 1, and no
\* step (an add_line_temperature, add_weather, add_tower_tilt or configure of
\* any thread) changes the flag of a record that is in the ring before and
\* after the step.
C12_FlagFrozen ==
    /\ [](\A i \in 1..Len(store.weather_records) :
              store.weather_records[i].wire_foreign_object \in {0, 1})
    /\ [][\A i \in 1..Len(store.weather_records) :
              LET r == store.weather_records[i]
              IN  FlagsOf(store'.weather_records, r.frame_no) \subseteq {r.wire_foreign_object}]_vars

\* a weather record was stored with flag 0, and then a line temperature that
\* would give it flag 1 was ingested for its component: the flag is still 0
C12_Witness ==
    /\ completed = <<"weather", "line_temperature">>
    /\ Len(store.weather_records) = 1
    /\ store.weather_records[1].wire_foreign_object = 0
    /\ _get_wire_flag(store, store.weather_records[1].component_id,
                      store.weather_records[1].raw_payload.time_stamp) = 1

-----------------------------------------------------------------------------
(* C13 *)

\* C13: whenever a thread appends the record of an add_weather call to the
\* ring, the record's wire_foreign_object equals the fusion rule evaluated on
\* the alert table and the alert timeout as they are at the instant of the
\* append, whatever add_line_temperature and configure calls other threads
\* make meanwhile.
C13_FusionAtAppend ==
    [][\A c \in Conns :
          AppendsRecord(c) =>
              pend[c].wire_foreign_object =
                  _get_wire_flag(store, pend[c].component_id,
                                 pend[c].raw_payload.time_stamp)]_vars

-----------------------------------------------------------------------------
(* SpecLock: which accesses to the fields of the store happen under its    *)
(* lock.  A public method is the sequence of the lock operations and field *)
(* accesses its body makes, in source order; a method whose accesses       *)
(* depend on its arguments or on the data has one sequence per path, and  *)
(* consecutive accesses to one field are one operation.  The values read   *)
(* and written are left to the other specifications.                       *)

\* the paths through the public methods of I1DataStore
StoreMethod(m) ==
    LET acquire == <<"acquire">>
        release == <<"release">>
        rd(field) == <<"read", field>>
        wr(field) == <<"write", field>>
        bump == <<rd("_update_counter"), wr("_update_counter")>>
    IN
    CASE m = "configure" ->
           { <<acquire, release>>,
             <<acquire, rd("_max_records"), wr("_line_temp_alert_threshold"),
               wr("_line_temp_alert_timeout"), release>>,
             <<acquire, rd("_max_records"), wr("_max_records"), rd("_weather_records"),
               wr("_weather_records"), wr("_line_temp_alert_threshold"),
               wr("_line_temp_alert_timeout"), release>> }
      [] m = "add_weather" ->
           \* _get_wire_flag runs while the record is built: no alert or an
           \* inactive one; an active one
           { get_wire_flag \o <<acquire, wr("_weather_records")>> \o bump
                 \o <<rd("_weather_records"), release>> :
               get_wire_flag \in { <<rd("_line_temp_alerts")>>,
                                   <<rd("_line_temp_alerts"), rd("_line_temp_alert_timeout")>> } }
      [] m = "add_line_temperature" ->
           { <<rd("_line_temp_alert_threshold"), acquire, wr("_line_temp_alerts")>> \o bump
                 \o <<release>> }
      [] m = "add_tower_tilt" ->
           { <<acquire, wr("_latest_tower_tilt")>> \o bump \o <<release>> }
      [] m = "add_heartbeat" ->
           { <<acquire, wr("_latest_heartbeat")>> \o bump \o <<release>> }
      [] m \in {"get_all_weather", "get_latest_weather", "get_recent_weather",
                "get_weather_count"} ->
           { <<acquire, rd("_weather_records"), release>> }
      [] m = "get_latest_tower_tilt" -> { <<acquire, rd("_latest_tower_tilt"), release>> }
      [] m = "get_latest_heartbeat" -> { <<acquire, rd("_latest_heartbeat"), release>> }
      [] m = "is_data_updated" ->
           { <<acquire, rd("_update_counter"), rd("_last_update_counter_checked"), release>>,
             <<acquire, rd("_update_counter"), rd("_last_update_counter_checked"),
               rd("_update_counter"), wr("_last_update_counter_checked"), release>> }
      [] m = "get_data_info" ->
           { <<acquire, rd("_weather_records"), rd("_line_temp_alert_threshold"),
               rd("_line_temp_alert_timeout"), release>> }

\* thread t calls method m and will take one of its paths
CallMethod(t, m) ==
    /\ prog[t] = <<>>
    /\ \E code \in StoreMethod(m) : prog' = [prog EXCEPT ![t] = [method |-> m, code |-> code]]
    /\ UNCHANGED <<mgrVars, connVars, pend, store, ingested, reconfigured, ret, histVars, lock, access>>

\* thread t executes the next operation of its method: RLock.acquire blocks
\* while another thread owns the lock; after the last operation the method
\* returns
StepMethod(t) ==
    /\ prog[t] # <<>>
    /\ LET op == Head(prog[t].code)
           rest == Tail(prog[t].code)
       IN  /\ CASE op[1] = "acquire" ->
                     /\ lock.owner \in {0, t}
                     /\ lock' = [owner |-> t, depth |-> lock.depth + 1]
                     /\ UNCHANGED access
                [] op[1] = "release" ->
                     /\ lock' = IF lock.depth = 1 THEN FreeLock
                                ELSE [lock EXCEPT !.depth = @ - 1]
                     /\ UNCHANGED access
                [] OTHER ->
                     /\ access' = [ thread |-> t, method |-> prog[t].method, mode |-> op[1],
                                    field |-> op[2], held |-> lock.owner = t ]
                     /\ UNCHANGED lock
           /\ prog' = [prog EXCEPT ![t] = IF rest = <<>> THEN <<>> ELSE [@ EXCEPT !.code = rest]]
    /\ UNCHANGED <<mgrVars, connVars, pend, store, ingested, reconfigured, ret, histVars>>

NextLock ==
    \/ \E c \in Conns :
          \/ \E m \in {"add_weather", "add_line_temperature", "add_tower_tilt",
                       "add_heartbeat"} : CallMethod(c, m)
          \/ StepMethod(c)
    \/ \E t \in Callers :
          \/ \E m \in {"configure", "get_all_weather", "get_latest_weather",
                       "get_recent_weather", "get_weather_count", "get_latest_tower_tilt",
                       "get_latest_heartbeat", "is_data_updated", "get_data_info"} :
                CallMethod(t, m)
          \/ StepMethod(t)

SpecLock == InitFresh /\ [][NextLock]_vars

-----------------------------------------------------------------------------
(* C14 *)

\* C14: every read or write a public store method makes of the ring, the
\* tilt and heartbeat caches, the alert table, the update counter, the
\* cursor or the configuration values is made while the calling thread
\* holds the store's lock.
C14_LockHeld == access # <<>> => access.held

-----------------------------------------------------------------------------
(* C15 *)

\* C15: the update counter equals the number of add_weather,
\* add_line_temperature, add_tower_tilt and add_heartbeat calls that have
\* returned, over all threads, in every state and so in every quiescent
\* one; no step decreases it; a step in which an add_* call returns
\* increases it by exactly 1, and every other step (a read, a configure, the
\* part of an add_* call before its lock) leaves it unchanged.
C15_UpdateCounter ==
    /\ [](store.update_counter = Len(completed))
    /\ [][/\ store'.update_counter >= store.update_counter
          /\ completed' # completed =>
                /\ Len(completed') = Len(completed) + 1
                /\ store'.update_counter = store.update_counter + 1
          /\ completed' = completed => store'.update_counter = store.update_counter]_vars

\* the two handler threads have completed three ingests of three kinds, one
\* of them while the other was between the two parts of add_weather, and a
\* caller has configured the store and read from it
C15_Witness ==
    /\ Len(completed) = 3
    /\ completed[1] = "line_temperature" /\ completed[2] = "heartbeat"
    /\ completed[3] = "weather"
    /\ store.weather_records # <<>>
    /\ store.weather_records[Len(store.weather_records)].wire_foreign_object = 0
    /\ alerted[Str_LT501].line_temperature = F32_85
    /\ store.line_temp_alert_threshold = F32_80
    /\ store.line_temp_alert_timeout = 600
    /\ store.update_counter = 3
    /\ reconfigured
    /\ ret[3] # <<>>
    /\ ret[3].method = "get_weather_count"
    /\ ret[3].result.value = 1
    /\ \A c \in Conns : pend[c] = NoRecord

-----------------------------------------------------------------------------
(* SpecPoll: the handler threads ingest while the consumers poll           *)
(* is_data_updated.                                                        *)

\* consumer t calls is_data_updated()
IsDataUpdated(t) ==
    /\ LET r == is_data_updated(store)
       IN  /\ store' = r.store
           /\ ret' = [ret EXCEPT ![t] = [ method |-> "is_data_updated",
                                          result |-> Immutable(r.value),
                                          mutated |-> FALSE ]]
    /\ unseen' = [unseen EXCEPT ![t] = [since |-> FALSE, before |-> unseen[t].since]]
    /\ UNCHANGED <<mgrVars, connVars, pend, ingested, reconfigured, alerted, completed, lockVars>>

NextPoll ==
    \/ \E c \in Conns :
          \/ \E payload \in WeatherPayloads : AddWeatherBuild(c, payload)
          \/ AddWeatherAppend(c)
          \/ \E payload \in LineTemperaturePayloads : AddLineTemperatureBegin(c, payload)
          \/ AddLineTemperatureStore(c)
          \/ \E payload \in TowerTiltPayloads : AddTowerTilt(c, payload)
          \/ \E payload \in HeartbeatPayloads : AddHeartbeat(c, payload)
    \/ \E t \in Consumers : IsDataUpdated(t)

SpecPoll == InitFresh /\ [][NextPoll]_vars

-----------------------------------------------------------------------------
(* C16 *)

\* no consumer other than t has called is_data_updated so far
OnlyConsumer(t) == \A u \in Consumers \ {t} : ret[u] = <<>>

\* C16: when t is the only thread that calls is_data_updated, each of its
\* calls returns true if and only if an add_* call has returned since t's
\* previous call (since the store was built, for the first call): false on
\* a fresh store, true once after a batch of writes, false again until the
\* next write.
C16_SingleConsumer ==
    \A t \in Consumers :
        (ret[t] # <<>> /\ OnlyConsumer(t)) => ret[t].result.value = unseen[t].before

\* consumer 3, polling alone, has seen the batch of two writes and its last
\* call, made after that with no write in between, returned false
C16_Witness ==
    /\ OnlyConsumer(3)
    /\ Len(completed) = 2
    /\ store.last_update_counter_checked = 2
    /\ unseen[3] = [since |-> FALSE, before |-> FALSE]
    /\ ret[3] # <<>>
    /\ ret[3].result.value = FALSE

-----------------------------------------------------------------------------
(* C17 *)

\* C17: with two consumers polling the same store, each call of a consumer
\* returns true if and only if an add_* call has returned since that
\* consumer's own previous call; a call by the other consumer does not take
\* the notification away.
C17_PerConsumer ==
    \A t \in Consumers : ret[t] # <<>> => ret[t].result.value = unseen[t].before

-----------------------------------------------------------------------------
(* SpecRead: a caller reads from the store and then changes the list or    *)
(* dict it was given, while the handler threads keep ingesting.            *)

\* the content of a returned object, with the store being s
ContentIn(s, r) == IF r.kind = "store" THEN s[r.field] ELSE r.value

\* what a list or dict can be after the caller has removed an entry from it,
\* replaced one, or added one
Mutations(method, v) ==
    IF method \in {"get_all_weather", "get_recent_weather"}
    THEN (IF v = <<>> THEN {} ELSE {Tail(v), [v EXCEPT ![1] = NoRecord]})
           \cup {Append(v, NoRecord)}
    ELSE IF method = "get_latest_weather"
    THEN { [k \in DOMAIN v \ {"lux"} |-> v[k]], [v EXCEPT !.frame_no = 255],
           DictSet(v, "note", 0) }
    ELSE { [k \in DOMAIN v \ {key} |-> v[k]] : key \in DOMAIN v }
           \cup { [v EXCEPT ![key] = NoPayload] : key \in DOMAIN v }
           \cup { DictSet(v, <<120>>, NoPayload) }

\* the caller changes the object its last read returned (once per object)
MutateReturned(t) ==
    /\ ret[t] # <<>>
    /\ ~ret[t].mutated
    /\ ret[t].result.kind # "immutable"
    /\ \E w \in Mutations(ret[t].method, ContentIn(store, ret[t].result)) :
          IF ret[t].result.kind = "new"
          THEN /\ ret' = [ret EXCEPT ![t] = [@ EXCEPT !.result = NewObject(w),
                                                      !.mutated = TRUE]]
               /\ UNCHANGED store
          ELSE /\ ret' = [ret EXCEPT ![t] = [@ EXCEPT !.mutated = TRUE]]
               /\ store' = [store EXCEPT ![ret[t].result.field] = w]
    /\ UNCHANGED <<mgrVars, connVars, pend, ingested, reconfigured, histVars, lockVars>>

NextRead ==
    \/ \E c \in Conns :
          \/ \E payload \in WeatherPayloads : AddWeatherBuild(c, payload)
          \/ AddWeatherAppend(c)
          \/ \E payload \in FusionTowerTilts : AddTowerTilt(c, payload)
          \/ \E payload \in HeartbeatPayloads : AddHeartbeat(c, payload)
    \/ \E t \in Callers :
          \/ \E method \in {"get_all_weather", "get_latest_weather", "get_recent_weather",
                            "get_latest_tower_tilt", "get_latest_heartbeat"},
                limit \in {0, 1} : ReadCall(t, method, limit)
          \/ MutateReturned(t)

SpecRead == InitFresh /\ [][NextRead]_vars

-----------------------------------------------------------------------------
(* C18 *)

\* caller t changes, in this step, the object its last read returned
Mutates(t) == ret[t] # <<>> /\ ~ret[t].mutated /\ ret'[t] # <<>> /\ ret'[t].mutated
\* t's read call returns in this step
Reads(t) == ret'[t] # <<>> /\ ~ret'[t].mutated /\ store' = store /\ ret'[t] # ret[t]

\* C18: adding, removing or replacing entries of a list or dict returned by
\* get_all_weather, get_latest_weather, get_recent_weather,
\* get_latest_tower_tilt or get_latest_heartbeat leaves the store, and so
\* every later read, unchanged; no step of another thread (an ingest)
\* changes the content of a value already returned; and the list that
\* get_all_weather or get_recent_weather returns is the ring (its last
\* `limit` records) as it is at the instant of the call, one dict per
\* record.
C18_ReadsAreSnapshots ==
    [][\A t \in Callers :
          /\ Mutates(t) => store' = store
          /\ (ret[t] # <<>> /\ ret'[t] = ret[t]) =>
                ContentIn(store', ret[t].result) = ContentIn(store, ret[t].result)
          /\ (Reads(t) /\ ret'[t].method = "get_all_weather") =>
                ContentIn(store', ret'[t].result) =
                    [i \in 1..Len(store.weather_records) |->
                        _record_to_dict(store.weather_records[i])]
          /\ (Reads(t) /\ ret'[t].method = "get_recent_weather") =>
                \E n \in {1, Len(store.weather_records)} :
                    ContentIn(store', ret'[t].result) =
                        [i \in 1..Min(n, Len(store.weather_records)) |->
                            _record_to_dict(store.weather_records[
                                Len(store.weather_records) - Min(n, Len(store.weather_records)) + i])]
          /\ (Reads(t) /\ ret'[t].method = "get_latest_tower_tilt") =>
                ContentIn(store', ret'[t].result) = store.latest_tower_tilt
          /\ (Reads(t) /\ ret'[t].method = "get_latest_heartbeat") =>
                ContentIn(store', ret'[t].result) = store.latest_heartbeat]_vars

\* the caller has read the tilt cache when it held one component, and has
\* removed that entry from the dict it got; a tilt of another component was
\* ingested: the cache holds both components
C18_Witness ==
    /\ ret[3] # <<>>
    /\ ret[3].method = "get_latest_tower_tilt"
    /\ ret[3].mutated
    /\ ret[3].result.value = EmptyDict
    /\ Cardinality(DOMAIN store.latest_tower_tilt) = 2

-----------------------------------------------------------------------------
(* C19 *)

\* C19: for every Component_Id, no step makes the time_stamp of the
\* component's entry in the tilt cache smaller, and no step makes the time
\* stamp of the component's alert entry smaller; a payload of another
\* component is stored whatever its time stamp.
C19_ForwardOnly ==
    [][/\ \A comp \in DOMAIN store.latest_tower_tilt :
             /\ comp \in DOMAIN store'.latest_tower_tilt
             /\ store'.latest_tower_tilt[comp].time_stamp
                    >= store.latest_tower_tilt[comp].time_stamp
       /\ \A comp \in DOMAIN store.line_temp_alerts :
             /\ comp \in DOMAIN store'.line_temp_alerts
             /\ store'.line_temp_alerts[comp][1] >= store.line_temp_alerts[comp][1]]_vars

-----------------------------------------------------------------------------
(* C20 *)

\* the newest n records of a ring, in their order
Newest(records, n) == [i \in 1..Min(n, Len(records)) |->
                          records[Len(records) - Min(n, Len(records)) + i]]

\* what C20 says of a step: a configure(max_records = K) with K different
\* from the capacity leaves the newest min(old_len, K) records in order and
\* sets the capacity to K (K itself, or K raised to at least 1); a configure
\* without max_records leaves ring, caches and alert table alone; an
\* append evicts at the capacity in force
Reconfigures(clamped) ==
    /\ \A t \in Callers, max_records \in OptMaxRecords, threshold \in OptThreshold,
          timeout \in OptTimeout :
          (reconfigured' /\ pend' = pend /\ ret' = ret /\ completed' = completed
             /\ Configure(t, max_records, threshold, timeout)) =>
              /\ (max_records # <<>> /\ max_records[1] # store.max_records) =>
                    LET K == IF clamped THEN Max(1, max_records[1]) ELSE max_records[1]
                    IN  /\ store'.weather_records = Newest(store.weather_records, K)
                        /\ store'.max_records = K
              /\ max_records = <<>> =>
                    /\ store'.weather_records = store.weather_records
                    /\ store'.max_records = store.max_records
              /\ store'.latest_tower_tilt = store.latest_tower_tilt
              /\ store'.latest_heartbeat = store.latest_heartbeat
              /\ store'.line_temp_alerts = store.line_temp_alerts
    /\ \A c \in Conns :
          AppendsRecord(c) =>
              store'.weather_records =
                  Newest(Append(store.weather_records, pend[c]), store.max_records)

\* C20 as stated: configure(max_records = K) with K different from the
\* current capacity rebuilds the ring so that it holds exactly the newest
\* min(old_len, K) records in their original order, and later ingests evict
\* at capacity K; a configure that changes only the threshold or the
\* timeout leaves ring, caches and alert table unchanged.
C20_AsStated == [][Reconfigures(FALSE)]_vars

\* C20, amended: the same with K replaced by max(1, K): a max_records below
\* 1 is clamped to 1, and the ring keeps the newest min(old_len, max(1, K))
\* records.
C20_Clamped == [][Reconfigures(TRUE)]_vars

\* a caller saw two records in the ring; configure has since shrunk the ring
\* to capacity 1, and after a third ingest the ring holds the third record
C20_Witness ==
    /\ reconfigured
    /\ ret[3] # <<>>
    /\ ret[3].method = "get_weather_count"
    /\ ret[3].result.value = 2
    /\ store.max_records = 1
    /\ Len(ingested) = 3
    /\ store.weather_records = <<ingested[3]>>

-----------------------------------------------------------------------------
(* Clamping of max_records.  SpecClamp is SpecStore with the store built   *)
(* by I1DataStore(max_records=m) for an m <= 0.                            *)

\* the store is constructed with a max_records that is not positive
InitClamp ==
    /\ ConnsInit
    /\ \E max_records \in {-1, 0} : store = I1DataStore(max_records, F32_80, 600)
    /\ ingested = <<>>
    /\ reconfigured = FALSE
    /\ ret = [t \in Callers \cup Consumers |-> <<>>]
    /\ AuxInit

SpecClamp == InitClamp /\ [][NextStore]_vars

\* C21: a max_records <= 0 given to the constructor or to configure raises
\* nothing and makes the ring capacity exactly 1.  As long as configure has
\* not been called, the store built with max_records <= 0 has capacity 1 and
\* its ring is exactly the newest record ingested; a configure call with
\* max_records <= 0 leaves capacity 1 and at most the newest record of the
\* ring; the capacity changes only in a configure call that gives a positive
\* max_records; and while the capacity is 1 every weather ingest leaves
\* exactly the record it appended in the ring.
C21_ClampedToOne ==
    /\ [](~reconfigured => /\ store.max_records = 1
                           /\ store.weather_records = Newest(ingested, 1))
    /\ [][ /\ \A t \in Callers, max_records \in OptMaxRecords,
                 threshold \in OptThreshold, timeout \in OptTimeout :
                 (/\ reconfigured' /\ pend' = pend /\ ret' = ret
                  /\ completed' = completed
                  /\ max_records # <<>> /\ max_records[1] <= 0
                  /\ Configure(t, max_records, threshold, timeout))
                 => (/\ store'.max_records = 1
                     /\ store'.weather_records = Newest(store.weather_records, 1))
           /\ (store'.max_records # store.max_records)
                 => (\E t \in Callers, max_records \in OptMaxRecords,
                        threshold \in OptThreshold, timeout \in OptTimeout :
                        /\ max_records # <<>> /\ max_records[1] > 0
                        /\ Configure(t, max_records, threshold, timeout))
           /\ \A c \in Conns :
                 (store.max_records = 1 /\ AppendsRecord(c))
                 => (store'.weather_records = <<pend[c]>>) ]_vars

\* a store built with max_records <= 0 and never configured has ingested two
\* weather records and holds the second one only
C21_Witness ==
    /\ ~reconfigured
    /\ Len(ingested) = 2
    /\ store.max_records = 1
    /\ store.weather_records = <<ingested[2]>>
    /\ ingested[1] # ingested[2]

-----------------------------------------------------------------------------
(* The codec alone.  In SpecCodec each thread calls parse_uplink_frame     *)
(* once, on a byte string of DecodeInputs; frame[c] is the argument and    *)
(* parsed[c] the outcome (what it returned or raised).                     *)

\* a frame laid out as _build_frame lays it out, with any sync bytes, a
\* declared Packet_Length off by declared_delta, a CRC field off by crc_delta
\* and any end byte
Damaged(sync, declared_delta, packet_type, content, crc_delta, end) ==
    LET body == PackU16(Len(content) + declared_delta) \o _encode_component_id(Str_WS001)
                  \o <<FRAME_TYPE_UPLINK, packet_type, 7>> \o content
    IN  sync \o body \o PackU16((crc16_modbus(body) + crc_delta) % 65536) \o <<end>>

\* the arguments of parse_uplink_frame: the valid frames; a weather frame with
\* every combination of wrong sync, wrong declared length, unknown type,
\* short content, wrong CRC and wrong end byte; frames of the other types
\* with short content; frames with no content; byte strings shorter than a
\* frame
DecodeInputs ==
    ValidFrames
    \cup { Damaged(sync, declared_delta, packet_type, content, crc_delta, end) :
             sync \in {SYNC_BYTES, <<90, 90>>}, declared_delta \in {0, 1},
             packet_type \in {PACKET_TYPE_WEATHER, 119},
             content \in {ContentOf(FrameW7), Take(ContentOf(FrameW7), 58)},
             crc_delta \in {0, 1}, end \in {END_BYTE, 0} }
    \cup { _build_frame(Str_TT301, PACKET_TYPE_TOWER_TILT, 3, Take(ContentOf(FrameTT), 40)),
           _build_frame(Str_LT501, PACKET_TYPE_LINE_TEMPERATURE, 2,
                        Take(ContentOf(FrameLT), 26)),
           _build_frame(Str_HBCTRL01, PACKET_TYPE_HEARTBEAT, 9, Take(ContentOf(FrameHB), 33)),
           _build_frame(Str_WS001, PACKET_TYPE_WEATHER, 1, <<>>),
           _build_frame(Str_WS001, 119, 1, <<>>) }
    \cup { <<>>, <<90>>, SYNC_BYTES, Take(FrameW7, 26), Take(FrameLT, 26),
           Take(Damaged(<<90, 90>>, 0, 119, <<>>, 1, 0), 26),
           Take(_build_frame(Str_WS001, PACKET_TYPE_WEATHER, 1, <<>>), 26) \o <<END_BYTE>>,
           Take(FrameBadCrc, 25) \o <<END_BYTE>> }

\* parsed = parse_uplink_frame(frame)
ParseUplinkFrame(c, fr) ==
    /\ parsed[c] = NoPayload
    /\ frame' = [frame EXCEPT ![c] = fr]
    /\ parsed' = [parsed EXCEPT ![c] = parse_uplink_frame(fr)]
    /\ UNCHANGED <<mgrVars, timeouts, wire, buffer, pc, ack, pend, sock, extracted, parts, split, storeVars>>

NextCodec ==
    \E c \in Conns : \E fr \in DecodeInputs : ParseUplinkFrame(c, fr)

SpecCodec == InitFresh /\ [][NextCodec]_vars

-----------------------------------------------------------------------------
(* C22 *)

\* number of Content bytes the fields of a payload schema add up to
SchemaSize(packet_type) ==
    CASE packet_type = 49 -> 17 + 4 + 4 + 2 + 4 + 4 + 4 + 4 + 2 + 4 + 4 + 4 + 2
      [] packet_type = 50 -> 17 + 4 + 4 + 4 + 4 + 4 + 4
      [] packet_type = 51 -> 17 + 1 + 1 + 4 + 4
      [] packet_type = 97 -> 4 + 4 + 4 + 4 + 1 + 4 + 4 + 1 + 4 + 4 + 4

\* byte string fr violates check k of decode, for frames of overhead bytes
\* around their Content
Violates(k, fr, overhead) ==
    CASE k = 1 -> Len(fr) < overhead
      [] k = 2 -> Len(fr) < 2 \/ fr[1] # 90 \/ fr[2] # 165
      [] k = 3 -> Len(fr) < 4 \/ Len(fr) # overhead + fr[3] + 256 * fr[4]
      [] k = 4 -> Len(fr) < 1 \/ fr[Len(fr)] # 150
      [] k = 5 -> Len(fr) < 5 \/ crc16_modbus(Slice(fr, 2, Len(fr) - 3))
                                   # fr[Len(fr) - 2] + 256 * fr[Len(fr) - 1]
      [] k = 6 -> Len(fr) < 23 \/ fr[23] \notin {49, 50, 51, 97}
      [] k = 7 -> /\ Len(fr) >= 23 /\ fr[23] \in {49, 50, 51, 97}
                  /\ Len(fr) - overhead < SchemaSize(fr[23])

\* the first check fr violates, 0 when it violates none
FirstViolated(fr, overhead) ==
    IF \E k \in 1..7 : Violates(k, fr, overhead)
    THEN CHOOSE k \in 1..7 : /\ Violates(k, fr, overhead)
                             /\ \A j \in 1..(k - 1) : ~Violates(j, fr, overhead)
    ELSE 0

\* the raise statements of the decoder that report a violation of check k,
\* each as its exception class and its message
ErrorsOfCheck(k) ==
    CASE k = 1 -> { <<"I1ProtocolError", "frame too short">> }
      [] k = 2 -> { <<"FrameSyncError", "sync mismatch">> }
      [] k = 3 -> { <<"I1ProtocolError", "length mismatch">> }
      [] k = 4 -> { <<"I1ProtocolError", "end byte mismatch">> }
      [] k = 5 -> { <<"CRCMismatchError", "crc mismatch">> }
      [] k = 6 -> { <<"UnsupportedPacketTypeError", "unsupported packet type">> }
      [] k = 7 -> { <<"I1ProtocolError", msg>> :
                    msg \in { "weather content too short", "tilt content too short",
                              "line temperature content too short",
                              "heartbeat content too short",
                              "protocol version too short" } }

\* every call made reports the first check its argument violates
ReportsFirstViolated(overhead) ==
    \A c \in Conns :
       parsed[c] # NoPayload =>
       LET k == FirstViolated(frame[c], overhead) IN
       IF k = 0
       THEN parsed[c].err = NoError /\ parsed[c].value # NoPayload
       ELSE /\ <<parsed[c].err.cls, parsed[c].err.msg>> \in ErrorsOfCheck(k)
            /\ parsed[c].value = NoPayload

\* C22 as stated: decode applies its checks in the order (1) length >= 26,
\* (2) sync bytes 5A A5, (3) length = 26 + Packet_Length, (4) end byte 96,
\* (5) CRC, (6) Packet_Type is an uplink code, (7) payload length against the
\* schema; the error reported for a frame is that of the first check it
\* violates, and no payload is returned.
C22_AsStated == ReportsFirstViolated(26)

\* C22 with the frame overhead of the layout (2 + 2 + 17 + 1 + 1 + 1 bytes
\* before the Content, 2 + 1 after it): the checks are (1) length >= 27 and
\* (3) length = 27 + Packet_Length, the others and their order as stated; a
\* frame that violates none of them is decoded.
C22_ChecksInOrder == ReportsFirstViolated(2 + 2 + 17 + 1 + 1 + 1 + 2 + 1)

\* a call has been made on a frame that violates the sync, end and CRC checks
\* and has an unknown type and a short content; it reported the sync
C22_Witness ==
    \E c \in Conns :
       /\ parsed[c] # NoPayload
       /\ \A k \in {2, 4, 5, 6} : Violates(k, frame[c], 27)
       /\ ~Violates(1, frame[c], 27) /\ ~Violates(3, frame[c], 27)
       /\ parsed[c].err.cls = "FrameSyncError"

-----------------------------------------------------------------------------
(* C23 *)

\* C23: each of the seven decode failures (ShortFrame, BadSync,
\* LengthMismatch, BadEnd, CrcMismatch, UnsupportedPacketType,
\* PayloadTruncated) has an error kind of its own: two calls that fail on
\* different checks raise exceptions of different classes.
C23_DistinctKinds ==
    \A c, d \in Conns :
       (/\ parsed[c] # NoPayload /\ parsed[c].err # NoError
        /\ parsed[d] # NoPayload /\ parsed[d].err # NoError
        /\ FirstViolated(frame[c], 27) # FirstViolated(frame[d], 27))
       => parsed[c].err.cls # parsed[d].err.cls

-----------------------------------------------------------------------------
(* ACK frames alone.  In SpecAck one thread calls build_ack_frame once;    *)
(* parsed[c] holds the arguments of the call (the header triple and        *)
(* success) and ack[c] the frame it returned.                              *)

\* the cmd_id arguments: "", "A", "WS-001", a string of 17 characters, and
\* "A" followed by a NUL character
AckCmdIds == { <<>>, <<65>>, Str_WS001, Str_HBCTRL01 \o <<45, 48, 49, 50, 51, 52, 53>>,
               <<65, 0>> }
UplinkTypes == { PACKET_TYPE_WEATHER, PACKET_TYPE_TOWER_TILT,
                 PACKET_TYPE_LINE_TEMPERATURE, PACKET_TYPE_HEARTBEAT }

\* ack = build_ack_frame(cmd_id, packet_type, frame_no, success=success)
BuildAckFrame(c, cmd_id, packet_type, frame_no, success, now) ==
    /\ \A d \in Conns : ack[d] = <<>>
    /\ parsed' = [parsed EXCEPT ![c] = [ cmd_id |-> cmd_id, packet_type |-> packet_type,
                                         frame_no |-> frame_no, success |-> success ]]
    /\ ack' = [ack EXCEPT ![c] = build_ack_frame(cmd_id, packet_type, frame_no, success,
                                                 0, now)]
    /\ UNCHANGED <<mgrVars, timeouts, wire, buffer, pc, frame, pend, sock, extracted, parts, split, storeVars>>

NextAck ==
    \E c \in Conns, cmd_id \in AckCmdIds, packet_type \in UplinkTypes,
       frame_no \in {0, 7, 255}, success \in BOOLEAN, now \in Clock :
       BuildAckFrame(c, cmd_id, packet_type, frame_no, success, now)

SpecAck == InitFresh /\ [][NextAck]_vars

-----------------------------------------------------------------------------
(* C24 *)

\* the ACK built from the arguments in parsed[c] reads back as those
\* arguments, for a frame layout of overhead bytes around the Content and
\* for the cmd_ids that satisfy the condition
AckIdentity(overhead, any_cmd_id) ==
    \A c \in Conns :
       (/\ ack[c] # <<>>
        /\ any_cmd_id \/ parsed[c].cmd_id = <<>>
             \/ parsed[c].cmd_id[Len(parsed[c].cmd_id)] # 0)
       => LET a == ack[c]
              args == parsed[c]
              info == parse_ack(a)
              declared == a[3] + 256 * a[4]
          IN  /\ info.frame_type = 2
              /\ info.packet_type = CASE args.packet_type = 49 -> 177
                                      [] args.packet_type = 50 -> 178
                                      [] args.packet_type = 51 -> 179
                                      [] args.packet_type = 97 -> 225
              /\ info.frame_no = args.frame_no
              /\ info.cmd_id = args.cmd_id
              /\ declared = IF args.packet_type = 97 THEN 6 ELSE 1
              /\ Len(a) = overhead + declared
              /\ Len(info.status) = IF args.packet_type = 97 THEN 3 ELSE 1
              /\ a[Len(a)] = 150
              /\ a[Len(a) - 2] + 256 * a[Len(a) - 1]
                    = crc16_modbus(SubSeq(a, 3, Len(a) - 3))

\* C24 as stated: for every cmd_id of at most 17 ASCII characters, every
\* uplink packet_type, every frame_no in 0..255 and both values of success,
\* the frame encode_ack builds has Frame_Type 0x02, the mapped ACK
\* Packet_Type, the same Frame_No, the same Cmd_Id after stripping the zero
\* padding, a declared Packet_Length equal to its content length (1, or 6 for
\* a heartbeat), a total length of 26 + Packet_Length, a last byte 96 and a
\* CRC field equal to the CRC of bytes [2 .. len-3).
C24_AsStated == AckIdentity(26, TRUE)

\* C24 with the total length 27 + Packet_Length of the frame layout and for
\* the cmd_ids that do not end in a NUL character (a trailing NUL is not
\* told apart from the padding).
C24_AckIdentity == AckIdentity(27, FALSE)

\* a failure ACK for a heartbeat with a cmd_id of 17 characters and frame
\* number 255 has been built and is 33 bytes long
C24_Witness ==
    \E c \in Conns :
       /\ ack[c] # <<>>
       /\ Len(parsed[c].cmd_id) = 17
       /\ parsed[c].packet_type = 97 /\ parsed[c].frame_no = 255 /\ ~parsed[c].success
       /\ Len(ack[c]) = 33
       /\ ack[c][25] = 0

-----------------------------------------------------------------------------
(* The CRC alone.  In SpecCrc one thread calls crc16_modbus once; frame[c] *)
(* is the argument and parsed[c] holds the value returned.                 *)

\* the arguments of crc16_modbus: the empty string, every string of one byte,
\* 01 02 03 04, "123456789", and the bytes the CRC of a frame covers
CrcInputs ==
    { <<>>, <<1, 2, 3, 4>>, <<49, 50, 51, 52, 53, 54, 55, 56, 57>>, <<255, 255, 255>> }
    \cup { <<b>> : b \in 0..255 }
    \cup { Slice(fr, 2, Len(fr) - 3) : fr \in ValidFrames }

\* crc = crc16_modbus(data)
Crc16Modbus(c, data) ==
    /\ \A d \in Conns : parsed[d] = NoPayload
    /\ frame' = [frame EXCEPT ![c] = data]
    /\ parsed' = [parsed EXCEPT ![c] = [kind |-> "crc", crc |-> crc16_modbus(data)]]
    /\ UNCHANGED <<mgrVars, timeouts, wire, buffer, pc, ack, pend, sock, extracted, parts, split, storeVars>>

NextCrc == \E c \in Conns : \E data \in CrcInputs : Crc16Modbus(c, data)

SpecCrc == InitFresh /\ [][NextCrc]_vars

-----------------------------------------------------------------------------
(* C25 *)

\* C25: crc16_modbus is the Modbus CRC16 (initial value 0xFFFF, reflected
\* polynomial 0xA001, least significant bit first, no final XOR): every value
\* it returns is in 0..0xFFFF; the CRC of the empty string is 0xFFFF, of 01
\* is 0x807E and of 01 02 03 04 is 0x2BA1; the CRC of "123456789" is 0x4B37,
\* the check value of CRC-16/MODBUS; and, as the register is 0xFFFF before
\* the first byte and no final XOR is made, the CRC of FF is 0x00FF.
C25_ModbusCrc ==
    \A c \in Conns :
       parsed[c] # NoPayload =>
       /\ parsed[c].crc \in 0..65535
       /\ frame[c] = <<>> => parsed[c].crc = 65535
       /\ frame[c] = <<1>> => parsed[c].crc = 32894
       /\ frame[c] = <<1, 2, 3, 4>> => parsed[c].crc = 11169
       /\ frame[c] = <<49, 50, 51, 52, 53, 54, 55, 56, 57>> => parsed[c].crc = 19255
       /\ frame[c] = <<255>> => parsed[c].crc = 255

\* crc16_modbus has been called on 01 02 03 04 and has returned 0x2BA1
C25_Witness ==
    \E c \in Conns : /\ parsed[c] # NoPayload
                     /\ frame[c] = <<1, 2, 3, 4>>
                     /\ parsed[c].crc = 11169

-----------------------------------------------------------------------------
(* C26 *)

\* fr passes the length, sync, end and CRC checks and has Packet_Type 0x61
WellFramedHeartbeat(fr) ==
    /\ \A k \in 1..5 : ~Violates(k, fr, 27)
    /\ fr[23] = 97

\* a well-framed heartbeat whose Content has at least size bytes is decoded,
\* stored as the latest heartbeat and answered with status 0xFF; one with a
\* shorter Content changes nothing in the store and is answered with 0x00
HeartbeatAccepted(size) ==
       \A c \in Conns :
          (pc[c] = "handle" /\ pc'[c] # pc[c] /\ WellFramedHeartbeat(frame[c])) =>
          LET content == SubSeq(frame[c], 25, Len(frame[c]) - 3) IN
          /\ pc'[c] = "send"
          /\ AckPacketType(ack'[c]) = 225
          /\ AckFrameNo(ack'[c]) = frame[c][24]
          /\ IF Len(content) >= size
             THEN /\ AckStatus(ack'[c]) = 255
                  /\ store'.latest_heartbeat.kind = "heartbeat"
                  /\ store'.latest_heartbeat.clocktime_stamp =
                        content[1] + 256 * content[2] + 65536 * content[3]
                          + 16777216 * content[4]
                  /\ store'.latest_heartbeat.connection_state = content[26]
                  /\ store'.latest_heartbeat.protocol_version = SubSeq(content, 35, 38)
                  /\ store'.update_counter = store.update_counter + 1
             ELSE /\ AckStatus(ack'[c]) = 0
                  /\ store' = store

\* C26 as stated: a heartbeat frame that passes the sync, length, end and CRC
\* checks and whose Content is exactly 34 bytes decodes successfully, is
\* stored as the latest heartbeat and is ACKed with status 0xFF; only a
\* Content shorter than 34 bytes is rejected as truncated.
C26_AsStated == [][HeartbeatAccepted(34)]_vars

\* C26 with the size the fields of the heartbeat schema add up to, 38 bytes
\* (five u32, three f32, two u8 and the four bytes of protocol_version): a
\* Content of 38 bytes is accepted, a shorter one, 34 bytes included, is
\* rejected as truncated.
C26_HeartbeatSize ==
    [][HeartbeatAccepted(4 + 4 + 4 + 4 + 1 + 4 + 4 + 1 + 4 + 4 + 4)]_vars

\* a heartbeat of 37 Content bytes was answered with a failure ACK and the
\* heartbeat of 38 bytes after it with a success ACK, and the latter is the
\* latest heartbeat
C26_Witness ==
    /\ extracted[1] = <<HeartbeatOfSize(37), FrameHB>>
    /\ Len(Written(1)) = 2
    /\ AckStatus(Written(1)[1]) = 0
    /\ AckStatus(Written(1)[2]) = 255
    /\ store.latest_heartbeat.kind = "heartbeat"
    /\ store.latest_heartbeat.protocol_version = <<1, 2, 4, 10>>
    /\ store.update_counter = 1

-----------------------------------------------------------------------------
(* C27 *)

\* the handler that holds the valid weather frame with frame number 7 and
\* time_stamp 1700000000 appends its record: the ACK it builds begins
\* 5A A5 01 00 <Cmd_Id of the frame> 02 B1 07 FF, the ring, when not full, has
\* one record more, and the latest record has this timestamp_Beijing
HappyWeather(timestamp_Beijing) ==
    \A c \in Conns :
       (/\ pc[c] = "append" /\ pc'[c] = "send"
        /\ frame[c][23] = 49 /\ frame[c][24] = 7
        /\ parsed[c].payload.time_stamp = 1700000000)
       => /\ Take(ack'[c], 25) = <<90, 165, 1, 0>> \o SubSeq(frame[c], 5, 21)
                                    \o <<2, 177, 7, 255>>
          /\ Len(store.weather_records) < store.max_records
               => Len(store'.weather_records) = Len(store.weather_records) + 1
          /\ _record_to_dict(store'.weather_records[Len(store'.weather_records)])
               .timestamp_Beijing = timestamp_Beijing

\* C27 as stated: ingesting a valid weather frame with frame_no 7 and
\* time_stamp 1700000000 produces an ACK beginning 5A A5 01 00 <cmd_id> 02 B1
\* 07 FF, increases the ring size by 1, and the latest record has
\* timestamp_Beijing = "2023-11-14 22:13".
C27_AsStated ==
    [][HappyWeather(<<50, 48, 50, 51, 45, 49, 49, 45, 49, 52, 32, 50, 50, 58, 49, 51>>)]_vars

\* C27 with the instant expressed at UTC+08:00: 1700000000 is 2023-11-14
\* 22:13:20 UTC, and the latest record has timestamp_Beijing =
\* "2023-11-15 06:13" (minute precision, seconds truncated).
C27_HappyWeather ==
    [][HappyWeather(<<50, 48, 50, 51, 45, 49, 49, 45, 49, 53, 32, 48, 54, 58, 49, 51>>)]_vars

\* the weather frame with frame number 7 was the only frame of the run; it is
\* in the ring with its Beijing time and its ACK reached the peer
C27_Witness ==
    /\ extracted[1] = <<FrameW7>>
    /\ Len(Written(1)) = 1
    /\ Take(Written(1)[1], 4) = <<90, 165, 1, 0>>
    /\ SubSeq(Written(1)[1], 22, 25) = <<2, 177, 7, 255>>
    /\ Len(store.weather_records) = 1
    /\ store.weather_records[1].timestamp_str = <<50, 48, 50, 51, 45, 49, 49, 45, 49, 53, 32, 48, 54, 58, 49, 51>>

-----------------------------------------------------------------------------
(* server.py: _ServerManager, the module's _server_manager, and the        *)
(* I1TCPServer objects it builds.  start and stop are called by the        *)
(* application's threads; each I1TCPServer has one thread that runs        *)
(* serve_forever and one handler thread per accepted connection.           *)

\* the (host, port) arguments of start
Addresses == {<<"0.0.0.0", 9100>>, <<"127.0.0.1", 9200>>}

\* the store arguments of start: None, or a store of the caller
StoreArgs == {"None", "I1DataStore()"}

\* how many calls the application's threads make on the manager
MaxCalls == 3

\* I1TCPServer((host, port), I1RequestHandler, store) binds and listens, or
\* the bind raises and TCPServer.__init__ closes the socket.  serve_forever
\* is the state of the thread that runs it, shutdown_request the flag that
\* shutdown() sets, _threads the connections whose handler thread has not
\* ended (ThreadingMixIn keeps them: daemon_threads is False), accepted
\* (history) the connections accepted so far.
I1TCPServer(server_address, data_store, bound) ==
    [ server_address |-> server_address,
      store |-> data_store,
      socket |-> IF bound THEN "listening" ELSE "closed",
      serve_forever |-> "not started",
      shutdown_request |-> FALSE,
      _threads |-> {},
      accepted |-> {} ]

\* another socket of this process listens on the port
AddressInUse(port) ==
    \E i \in DOMAIN servers :
        servers[i].socket = "listening" /\ servers[i].server_address[2] = port

\* the call of thread t ends; the manager's lock is released by the action
Finished(t, outcome) ==
    [calls[t] EXCEPT !.pc = "done", !.args = <<>>, !.server = 0, !.outcome = outcome]

\* the calls made on the manager so far
CallsMade == SumOver([t \in Apps |-> calls[t].made], Apps)

\* an application thread calls start_i1_tcp_server(host, port, store)
StartCall(t, host, port, store_arg) ==
    /\ calls[t].pc \in {"idle", "done"}
    /\ CallsMade < MaxCalls
    /\ calls' = [calls EXCEPT ![t] = [ op |-> "start", pc |-> "lock",
                                       args |-> <<host, port, store_arg>>, server |-> 0,
                                       outcome |-> "none", made |-> @.made + 1 ]]
    /\ UNCHANGED <<manager, servers, connVars, pend, storeVars>>

\* an application thread calls stop_i1_tcp_server()
StopCall(t) ==
    /\ calls[t].pc \in {"idle", "done"}
    /\ CallsMade < MaxCalls
    /\ calls' = [calls EXCEPT ![t] = [ op |-> "stop", pc |-> "lock",
                                       args |-> <<>>, server |-> 0,
                                       outcome |-> "none", made |-> @.made + 1 ]]
    /\ UNCHANGED <<manager, servers, connVars, pend, storeVars>>

\* variant of StartEnter: start without `if self._server is not None: return`
StartEnter_unchecked(t) ==
    /\ calls[t].op = "start"
    /\ calls[t].pc = "lock"
    /\ manager._lock = 0
    /\ manager' = [manager EXCEPT !._lock = t]
    /\ calls' = [calls EXCEPT ![t].pc = "bind"]
    /\ UNCHANGED <<servers, connVars, pend, storeVars>>

\* start: `with self._lock:` and `if self._server is not None: return`
StartEnter(t) ==
    /\ calls[t].op = "start"
    /\ calls[t].pc = "lock"
    /\ manager._lock = 0
    /\ IF manager._server # 0
       THEN /\ calls' = [calls EXCEPT ![t] = Finished(t, "returned")]
            /\ UNCHANGED manager
       ELSE /\ manager' = [manager EXCEPT !._lock = t]
            /\ calls' = [calls EXCEPT ![t].pc = "bind"]
    /\ UNCHANGED <<servers, connVars, pend, storeVars>>

\* variant of StartBind: the manager records the server before it is bound
\* and keeps the record and the lock when the bind raises
StartBind_recorded(t) ==
    /\ calls[t].op = "start"
    /\ calls[t].pc = "bind"
    /\ LET host == calls[t].args[1]
           port == calls[t].args[2]
           data_store == IF calls[t].args[3] = "None" THEN "get_i1_data_store()"
                         ELSE calls[t].args[3]
           server == Len(servers) + 1
       IN  \E bound \in BOOLEAN :
               /\ bound => ~AddressInUse(port)
               /\ servers' = Append(servers, I1TCPServer(<<host, port>>, data_store, bound))
               /\ manager' = [manager EXCEPT !._server = server]
               /\ IF bound
                  THEN calls' = [calls EXCEPT ![t].pc = "thread", ![t].server = server]
                  ELSE calls' = [calls EXCEPT ![t] = Finished(t, "raised")]
    /\ UNCHANGED <<connVars, pend, storeVars>>

\* start: `if store is None: store = get_i1_data_store()` and
\* `server = I1TCPServer((host, port), I1RequestHandler, store)`; the bind
\* raises when the port is taken, by this process or by another one, and
\* the exception leaves the `with` block and the call
StartBind(t) ==
    /\ calls[t].op = "start"
    /\ calls[t].pc = "bind"
    /\ LET host == calls[t].args[1]
           port == calls[t].args[2]
           data_store == IF calls[t].args[3] = "None" THEN "get_i1_data_store()"
                         ELSE calls[t].args[3]
           server == Len(servers) + 1
       IN  \E bound \in BOOLEAN :
               /\ bound => ~AddressInUse(port)
               /\ servers' = Append(servers, I1TCPServer(<<host, port>>, data_store, bound))
               /\ IF bound
                  THEN /\ calls' = [calls EXCEPT ![t].pc = "thread", ![t].server = server]
                       /\ UNCHANGED manager
                  ELSE /\ calls' = [calls EXCEPT ![t] = Finished(t, "raised")]
                       /\ manager' = [manager EXCEPT !._lock = 0]
    /\ UNCHANGED <<connVars, pend, storeVars>>

\* start: `thread = threading.Thread(target=server.serve_forever, ...)` and
\* `thread.start()`
StartThread(t) ==
    /\ calls[t].op = "start"
    /\ calls[t].pc = "thread"
    /\ servers' = [servers EXCEPT ![calls[t].server].serve_forever = "running"]
    /\ calls' = [calls EXCEPT ![t].pc = "record"]
    /\ UNCHANGED <<manager, connVars, pend, storeVars>>

\* start: `self._server = server`, `self._thread = thread`, end of `with`
StartRecord(t) ==
    /\ calls[t].op = "start"
    /\ calls[t].pc = "record"
    /\ manager' = [_lock |-> 0, _server |-> calls[t].server, _thread |-> calls[t].server]
    /\ calls' = [calls EXCEPT ![t] = Finished(t, "returned")]
    /\ UNCHANGED <<servers, connVars, pend, storeVars>>

\* stop: `with self._lock:` and `if self._server is None: return`
StopEnter(t) ==
    /\ calls[t].op = "stop"
    /\ calls[t].pc = "lock"
    /\ manager._lock = 0
    /\ IF manager._server = 0
       THEN /\ calls' = [calls EXCEPT ![t] = Finished(t, "returned")]
            /\ UNCHANGED manager
       ELSE /\ manager' = [manager EXCEPT !._lock = t]
            /\ calls' = [calls EXCEPT ![t].pc = "shutdown", ![t].server = manager._server]
    /\ UNCHANGED <<servers, connVars, pend, storeVars>>

\* stop: self._server.shutdown() sets the flag that serve_forever polls
StopShutdown(t) ==
    /\ calls[t].op = "stop"
    /\ calls[t].pc = "shutdown"
    /\ servers' = [servers EXCEPT ![calls[t].server].shutdown_request = TRUE]
    /\ calls' = [calls EXCEPT ![t].pc = "wait"]
    /\ UNCHANGED <<manager, connVars, pend, storeVars>>

\* stop: shutdown() returns once serve_forever has left its loop
StopShutdownReturns(t) ==
    /\ calls[t].op = "stop"
    /\ calls[t].pc = "wait"
    /\ servers[calls[t].server].serve_forever = "exited"
    /\ calls' = [calls EXCEPT ![t].pc = "server_close"]
    /\ UNCHANGED <<manager, servers, connVars, pend, storeVars>>

\* stop: self._server.server_close() closes the listening socket, and then
\* (ThreadingMixIn.server_close) joins the handler threads of _threads
StopServerClose(t) ==
    /\ calls[t].op = "stop"
    /\ calls[t].pc = "server_close"
    /\ servers' = [servers EXCEPT ![calls[t].server].socket = "closed"]
    /\ calls' = [calls EXCEPT ![t].pc = "join"]
    /\ UNCHANGED <<manager, connVars, pend, storeVars>>

\* stop: server_close() returns when every handler thread has ended; then
\* `self._server = None`, `self._thread = None`, end of `with`
StopJoined(t) ==
    /\ calls[t].op = "stop"
    /\ calls[t].pc = "join"
    /\ servers[calls[t].server]._threads = {}
    /\ manager' = _ServerManager
    /\ calls' = [calls EXCEPT ![t] = Finished(t, "returned")]
    /\ UNCHANGED <<servers, connVars, pend, storeVars>>

\* the serve_forever thread of server i accepts connection c and starts its
\* handler thread (it may do so once more after the shutdown flag was set)
Accept(i, c) ==
    /\ servers[i].serve_forever = "running"
    /\ servers[i].socket = "listening"
    /\ \A j \in DOMAIN servers : c \notin servers[j].accepted
    /\ servers' = [servers EXCEPT ![i]._threads = @ \cup {c},
                                  ![i].accepted = @ \cup {c}]
    /\ UNCHANGED <<manager, calls, connVars, pend, storeVars>>

\* the serve_forever thread of server i sees the shutdown flag and returns
ServeForeverExits(i) ==
    /\ servers[i].serve_forever = "running"
    /\ servers[i].shutdown_request
    /\ servers' = [servers EXCEPT ![i].serve_forever = "exited",
                                  ![i].shutdown_request = FALSE]
    /\ UNCHANGED <<manager, calls, connVars, pend, storeVars>>

\* the peer of connection c disconnects: recv returns b"", handle() leaves
\* its loop and the handler thread ends (a recv timeout makes it `continue`)
HandlerEnds(i, c) ==
    /\ c \in servers[i]._threads
    /\ servers' = [servers EXCEPT ![i]._threads = @ \ {c}]
    /\ UNCHANGED <<manager, calls, connVars, pend, storeVars>>

NextManager ==
    \/ \E t \in Apps :
        \/ \E address \in Addresses : \E store_arg \in StoreArgs :
              StartCall(t, address[1], address[2], store_arg)
        \/ StopCall(t)
        \/ StartEnter(t)
        \/ StartBind(t)
        \/ StartThread(t)
        \/ StartRecord(t)
        \/ StopEnter(t)
        \/ StopShutdown(t)
        \/ StopShutdownReturns(t)
        \/ StopServerClose(t)
        \/ StopJoined(t)
    \/ \E i \in DOMAIN servers :
        \/ ServeForeverExits(i)
        \/ \E c \in Conns :
              \/ Accept(i, c)
              \/ HandlerEnds(i, c)

SpecManager == InitFresh /\ [][NextManager]_vars

-----------------------------------------------------------------------------
(* What the manager owns.                                                  *)

\* the servers whose listening socket is open
Listening == {i \in DOMAIN servers : servers[i].socket = "listening"}

\* the servers whose serve_forever thread runs
Serving == {i \in DOMAIN servers : servers[i].serve_forever = "running"}

\* server i is the manager's _server, or the local `server` of the call
\* that holds the manager's lock
OwnedByManager(i) ==
    \/ manager._server = i
    \/ \E t \in Apps : manager._lock = t /\ calls[t].server = i

\* thread t, in a start call, gets the manager's lock in this step
StartGetsLock(t) ==
    /\ calls[t].op = "start"
    /\ calls[t].pc = "lock"
    /\ calls'[t].pc # "lock"

\* C28: under any interleaving of start and stop calls there is at most one
\* open listener and at most one accept thread, both of the server the
\* manager owns; and a start call that gets the lock while a server is
\* recorded returns at once and changes nothing: no server is constructed
\* (no second bind), and the manager's server keeps its host, port and store
C28_StartIdempotent ==
    /\ [](/\ Cardinality(Listening) <= 1
          /\ Cardinality(Serving) <= 1
          /\ \A i \in Listening \cup Serving : OwnedByManager(i))
    /\ [][\A t \in Apps :
            (StartGetsLock(t) /\ manager._server # 0)
            => (/\ calls'[t].pc = "done"
                /\ calls'[t].outcome = "returned"
                /\ manager' = manager
                /\ servers' = servers)]_vars

\* two threads have called start and both calls have returned; one server was
\* constructed and it listens and serves
C28_Witness ==
    /\ \A t \in Apps : /\ calls[t].op = "start"
                       /\ calls[t].pc = "done"
                       /\ calls[t].outcome = "returned"
    /\ Len(servers) = 1
    /\ manager._server = 1
    /\ Listening = {1}
    /\ Serving = {1}

\* thread t, in stop, is inside server_close() after the listener was
\* closed, and cannot leave it: a handler thread of the server has not ended
StopWaitsForHandler(t) ==
    /\ calls[t].op = "stop"
    /\ calls[t].pc = "join"
    /\ servers[calls[t].server]._threads # {}

\* C29: stop makes the accept loop exit and closes the listener without
\* waiting for connection handlers: no stop call is ever held up by a
\* handler thread whose peer has not disconnected
C29_StopDoesNotWait ==
    \A t \in Apps : ~StopWaitsForHandler(t)

\* the start call of thread t constructs a server in this step and the
\* bind raises
BindFails(t) ==
    /\ calls[t].op = "start"
    /\ calls[t].pc = "bind"
    /\ Len(servers') = Len(servers) + 1
    /\ servers'[Len(servers')].socket = "closed"

\* thread t, in a stop call, gets the manager's lock in this step
StopGetsLock(t) ==
    /\ calls[t].op = "stop"
    /\ calls[t].pc = "lock"
    /\ calls'[t].pc # "lock"

\* C30: a bind that fails ends the start call with the exception and leaves
\* the manager not running: no server and no thread recorded, the lock
\* free, no listener and no accept thread more than before; a start call
\* that gets the lock while no server is recorded goes on to construct a
\* server, whatever happened to earlier calls; a stop call that gets the
\* lock while no server is recorded returns and changes nothing
C30_BindFailure ==
    [][\A t \in Apps :
          /\ BindFails(t)
             => (/\ calls'[t].pc = "done"
                 /\ calls'[t].outcome = "raised"
                 /\ manager' = _ServerManager
                 /\ Listening' = Listening
                 /\ Serving' = Serving)
          /\ (StartGetsLock(t) /\ manager._server = 0)
             => (/\ calls'[t].pc = "bind"
                 /\ servers' = servers)
          /\ (calls[t].op = "start" /\ calls[t].pc = "bind" /\ calls'[t].pc # "bind")
             => Len(servers') = Len(servers) + 1
          /\ (StopGetsLock(t) /\ manager._server = 0)
             => (/\ calls'[t].pc = "done"
                 /\ calls'[t].outcome = "returned"
                 /\ manager' = manager
                 /\ servers' = servers)]_vars

\* a bind failed and the call raised; a stop call found nothing to stop; a
\* later start call bound again and its server is the one that runs
C30_Witness ==
    /\ Len(servers) = 2
    /\ servers[1].socket = "closed"
    /\ servers[1].serve_forever = "not started"
    /\ manager = [_lock |-> 0, _server |-> 2, _thread |-> 2]
    /\ Listening = {2}
    /\ \E t \in Apps : /\ calls[t].op = "stop"
                       /\ calls[t].pc = "done"
                       /\ calls[t].outcome = "returned"
    /\ servers[2].accepted = {}

-----------------------------------------------------------------------------
(* The extractor and the handler's loops: spurious lengths, split syncs,   *)
(* timeouts, the size of the buffer.                                       *)

\* the peer of c sent a sync with a spurious length and then one valid frame
SpuriousThenFrame(c) == parts[c] \in {<<g, FrameLT>> : g \in GarbageSpurious}

\* C32: a spurious length is skipped within the same extraction pass: when
\* the handler has processed every byte of a stream made of a spurious sync
\* and a complete valid frame, and waits for more, the frame has been
\* yielded and answered with a success ACK and its payload is stored
C32_SkippedInSamePass ==
    \A c \in Conns :
        (SpuriousThenFrame(c) /\ Drained(c))
        => /\ extracted[c] = <<FrameLT>>
           /\ Len(sock[c]) = 1
           /\ AckStatus(sock[c][1].data) = 255
           /\ Holds(store, parse_uplink_frame(FrameLT).value)

\* no byte 5A of b is followed by a byte A5
NoSyncIn(b) == \A i \in 1..(Len(b) - 1) : ~(b[i] = 90 /\ b[i + 1] = 165)

\* the handler of c runs, in this step, an extraction pass on a buffer
\* that holds no sync
ExtractsWithoutSync(c) ==
    /\ pc[c] = "extract"
    /\ pc'[c] # "extract"
    /\ NoSyncIn(buffer[c])

\* the peer of c sends valid frames and, between them, bytes without a sync
FramesAndSynclessBytes(c) ==
    /\ parts[c] # <<>>
    /\ \A k \in DOMAIN parts[c] : parts[c][k] \in ValidFrames \cup GarbageNoSync

\* C33: an extraction pass on a buffer without a 5A A5 pair yields no frame
\* and retains exactly the last byte of the buffer; so for every stream of
\* valid frames and sync-less bytes, cut into recv chunks at any place (between
\* the 5A and the A5 of a sync too), every frame has been extracted, in
\* order, when the handler has processed all bytes
C33_SplitSync ==
    /\ [][\A c \in Conns :
            ExtractsWithoutSync(c)
            => (/\ pc'[c] = "recv"
                /\ extracted'[c] = extracted[c]
                /\ frame'[c] = frame[c]
                /\ buffer'[c] = LastN(buffer[c], 1))]_vars
    /\ [](\A c \in Conns :
            (FramesAndSynclessBytes(c) /\ Drained(c))
            => extracted[c] = SelectSeq(parts[c], LAMBDA part : part \in ValidFrames))

\* after a frame, a chunk of five bytes without a sync and the 5A of the next
\* frame's sync arrived; the pass has kept the 5A and the A5 comes next
C33_Witness ==
    /\ parts[1] = <<FrameLT, <<17, 34, 51, 68, 85>>, FrameLT50>>
    /\ extracted[1] = <<FrameLT>>
    /\ pc[1] = "recv"
    /\ buffer[1] = <<90>>
    /\ wire[1] = Tail(FrameLT50)

-----------------------------------------------------------------------------
(* recv timeouts: the socket has a timeout of 30 s, and a recv call that    *)
(* gets no byte in that time raises socket.timeout.                        *)

\* how many recv calls of one connection time out
MaxTimeouts == 2

\* variant of RecvTimeout: the timeout is treated like the end of the stream
RecvTimeout_break(c) ==
    /\ pc[c] = "recv"
    /\ Len(timeouts[c]) < MaxTimeouts
    /\ timeouts' = [timeouts EXCEPT ![c] = Append(@, buffer[c] # <<>>)]
    /\ pc' = [pc EXCEPT ![c] = "closed"]
    /\ UNCHANGED <<mgrVars, wire, buffer, frame, parsed, ack, pend, sock, extracted, parts,
                   split, storeVars>>

\* self.request.recv(4096) raises socket.timeout: `continue`
RecvTimeout(c) ==
    /\ pc[c] = "recv"
    /\ Len(timeouts[c]) < MaxTimeouts
    /\ timeouts' = [timeouts EXCEPT ![c] = Append(@, buffer[c] # <<>>)]
    /\ UNCHANGED <<mgrVars, wire, buffer, pc, frame, parsed, ack, pend, sock, extracted, parts,
                   split, storeVars>>

\* one sensor sends a line temperature frame, slowly
InitTimeout ==
    /\ parts = [c \in Conns |-> IF c = 1 THEN <<FrameLT>> ELSE <<>>]
    /\ wire = [c \in Conns |-> IF c = 1 THEN FrameLT ELSE <<>>]
    /\ pc = [c \in Conns |-> IF c = 1 THEN "recv" ELSE "closed"]
    /\ split = [c \in Conns |-> FALSE]
    /\ timeouts = [c \in Conns |-> <<>>]
    /\ buffer = [c \in Conns |-> <<>>]
    /\ frame = [c \in Conns |-> <<>>]
    /\ parsed = [c \in Conns |-> NoPayload]
    /\ ack = [c \in Conns |-> <<>>]
    /\ pend = [t \in Threads |-> NoRecord]
    /\ sock = [c \in Conns |-> <<>>]
    /\ extracted = [c \in Conns |-> <<>>]
    /\ store = I1DataStore(RingCap, F32_80, 600)
    /\ ingested = <<>>
    /\ reconfigured = FALSE
    /\ ret = [t \in Callers \cup Consumers |-> <<>>]
    /\ AuxInit

NextTimeout ==
    \E c \in Conns :
        \/ Recv(c)
        \/ RecvTimeout(c)
        \/ RecvEof(c)
        \/ Extract(c)
        \/ HandleFrame(c)
        \/ SendAck(c)

SpecTimeout == InitTimeout /\ [][NextTimeout]_vars

\* a recv call of the handler of c raises socket.timeout in this step
TimesOut(c) == timeouts'[c] # timeouts[c]

\* C34: a recv timeout is not an error: the step leaves the handler at recv
\* with the connection open, makes no sendall call, leaves the store, the
\* buffer and the frames extracted so far unchanged; and a frame that arrives
\* in pieces, with timeouts before, between and after them, has been
\* extracted, stored and answered with a success ACK once all its bytes
\* are processed
C34_TimeoutIsNoError ==
    /\ [][\A c \in Conns :
            TimesOut(c)
            => (/\ pc[c] = "recv"
                /\ pc'[c] = "recv"
                /\ buffer' = buffer
                /\ wire' = wire
                /\ sock' = sock
                /\ ack' = ack
                /\ extracted' = extracted
                /\ store' = store
                /\ ingested' = ingested)]_vars
    /\ [](\A c \in Conns :
            (parts[c] = <<FrameLT>> /\ Drained(c))
            => (/\ extracted[c] = <<FrameLT>>
                /\ Len(sock[c]) = 1
                /\ AckStatus(sock[c][1].data) = 255
                /\ Holds(store, parse_uplink_frame(FrameLT).value)))

\* two recv calls timed out while the buffer held a part of the frame, and
\* the frame was completed, stored and answered
C34_Witness ==
    /\ timeouts[1] = <<TRUE, TRUE>>
    /\ Drained(1)
    /\ pc[1] = "recv"
    /\ extracted[1] = <<FrameLT>>
    /\ Len(Written(1)) = 1
    /\ AckStatus(Written(1)[1]) = 255
    /\ store.update_counter = 1

-----------------------------------------------------------------------------
(* ACK send failures.                                                      *)

\* the sendall call the handler of c makes in this step raises
SendFailsNow(c) ==
    /\ Len(sock'[c]) = Len(sock[c]) + 1
    /\ ~sock'[c][Len(sock'[c])].sent

\* C35: when sendall raises for the ACK of a frame, the step changes nothing
\* of the store (the write made for the frame is kept), the handler stays in
\* its extraction loop with its buffer, and the frames that follow are
\* extracted and processed: for two valid frames sent one after the other,
\* both are extracted, stored and answered by a sendall call each, whichever
\* sendall raised
C35_SendFailureTolerated ==
    /\ [][\A c \in Conns :
            SendFailsNow(c)
            => (/\ store' = store
                /\ ingested' = ingested
                /\ pc'[c] = "extract"
                /\ buffer' = buffer
                /\ extracted' = extracted)]_vars
    /\ [](\A c \in Conns :
            (parts[c] = <<FrameLT, FrameW7>> /\ Drained(c))
            => (/\ extracted[c] = <<FrameLT, FrameW7>>
                /\ Len(sock[c]) = 2
                /\ Holds(store, parse_uplink_frame(FrameLT).value)
                /\ Holds(store, parse_uplink_frame(FrameW7).value)))

\* both frames came in one chunk; sendall raised for the ACK of the first,
\* whose alert is stored, and the second was processed and answered
C35_Witness ==
    /\ parts[1] = <<FrameLT, FrameW7>>
    /\ ~split[1]
    /\ Drained(1)
    /\ Len(sock[1]) = 2
    /\ ~sock[1][1].sent
    /\ sock[1][2].sent
    /\ AckStatus(sock[1][2].data) = 255
    /\ Holds(store, parse_uplink_frame(FrameLT).value)
    /\ Len(store.weather_records) = 1

-----------------------------------------------------------------------------
(* The alert table: one sensor reports two line temperatures of component  *)
(* LT-501 and then its weather.                                            *)

\* unit 1 of LT-501 at 85 degrees, 100 s before the weather sample
FrameAbove == FrameLT
\* unit 2 of LT-501 at 50 degrees, measured 100 s before FrameAbove
FrameBelow ==
    build_line_temperature(
        [LineTemperatureSample(Str_LT501, 1699999800, F32_50) EXCEPT !.unit_no = 2],
        11, Str_LT501)

\* the sensor sends the reading above the threshold and then the older one
\* below it, or the other way round, and then the weather frame
InitAlert ==
    /\ \E ps \in { <<FrameAbove, FrameBelow, FrameW7>>, <<FrameBelow, FrameAbove, FrameW7>> } :
          /\ parts = [c \in Conns |-> IF c = 1 THEN ps ELSE <<>>]
          /\ wire = [c \in Conns |-> IF c = 1 THEN Flatten(ps) ELSE <<>>]
    /\ pc = [c \in Conns |-> IF c = 1 THEN "recv" ELSE "closed"]
    /\ split = [c \in Conns |-> FALSE]
    /\ timeouts = [c \in Conns |-> <<>>]
    /\ buffer = [c \in Conns |-> <<>>]
    /\ frame = [c \in Conns |-> <<>>]
    /\ parsed = [c \in Conns |-> NoPayload]
    /\ ack = [c \in Conns |-> <<>>]
    /\ pend = [t \in Threads |-> NoRecord]
    /\ sock = [c \in Conns |-> <<>>]
    /\ extracted = [c \in Conns |-> <<>>]
    /\ store = I1DataStore(RingCap, F32_80, 600)
    /\ ingested = <<>>
    /\ reconfigured = FALSE
    /\ ret = [t \in Callers \cup Consumers |-> <<>>]
    /\ AuxInit

SpecAlert == InitAlert /\ [][Next]_vars

\* the handler of c ingests, in this step, the line temperature payload of
\* the frame it holds
IngestsLineTemperature(c) ==
    /\ pc[c] = "handle"
    /\ pc'[c] = "send"
    /\ frame[c] \in {FrameAbove, FrameBelow}

\* C36: the alert entry of a component is last-writer-wins: an ingest of a
\* line temperature sets the entry of its component to (time_stamp,
\* line_temperature >= threshold), whatever the entry was, whatever the
\* unit_no, and also when the time_stamp is older than the entry's; so when
\* the reading above the threshold is followed by one below it, the weather
\* record ingested next gets flag 0 although it is within the timeout of the
\* reading above the threshold
C36_LastWriterWins ==
    /\ [][\A c \in Conns :
            IngestsLineTemperature(c)
            => LET payload == PayloadOf(frame[c]) IN
               store'.line_temp_alerts =
                   DictSet(store.line_temp_alerts, payload.component_id,
                           << payload.time_stamp,
                              F32GE(payload.line_temperature,
                                    store.line_temp_alert_threshold) >>)]_vars
    /\ [](\A c \in Conns :
            (parts[c] = <<FrameAbove, FrameBelow, FrameW7>> /\ Drained(c))
            => (/\ store.line_temp_alerts[Str_LT501] = <<1699999800, FALSE>>
                /\ Len(store.weather_records) = 1
                /\ store.weather_records[1].wire_foreign_object = 0))

\* the older reading of unit 2, below the threshold, replaced the entry of
\* the reading of unit 1 above it, 100 s before the weather record
C36_Witness ==
    /\ parts[1] = <<FrameAbove, FrameBelow, FrameW7>>
    /\ Drained(1)
    /\ extracted[1] = <<FrameAbove, FrameBelow, FrameW7>>
    /\ PayloadOf(FrameBelow).unit_no = 2
    /\ store.line_temp_alerts[Str_LT501] = <<1699999800, FALSE>>
    /\ store.weather_records[1].wire_foreign_object = 0
    /\ store.weather_records[1].raw_payload.time_stamp - 1699999900
          <= store.line_temp_alert_timeout

-----------------------------------------------------------------------------
(* SpecExtract: calls of _extract_frame on byte strings of every shape,    *)
(* the longest frames included.  frame[c] is the argument of the call of   *)
(* thread c and parsed[c] what it returned.                                *)

\* a sync, the declared length packet_length, and zero bytes up to the size
\* of a frame with that much Content
ZeroFrame(packet_length) ==
    SYNC_BYTES \o PackU16(packet_length) \o [i \in 1..(23 + packet_length) |-> 0]

\* the buffers: empty, without a sync, with a sync and too short for a
\* length, with lengths the extractor skips, incomplete frames, frames with
\* bytes before and after them, frames decode rejects, the shortest and the
\* longest frame and a frame one byte longer
ExtractInputs ==
    { <<>>, <<90>>, <<17, 34, 90>>, SYNC_BYTES, <<90, 165, 1>>,
      <<90, 165, 0, 0>> \o FrameLT, <<90, 165, 1, 0>>, Take(FrameW7, 84),
      FrameLT, FrameBadCrc, FrameBadEnd, FrameUnsupported,
      <<17, 90>> \o FrameTT \o <<1, 2, 3>>, FrameLT \o FrameW7, FrameHB \o <<90>>,
      ZeroFrame(1), ZeroFrame(4069), ZeroFrame(4070),
      <<9>> \o ZeroFrame(4069) \o <<7>>, Take(ZeroFrame(4069), 4095) }

\* thread c calls _extract_frame(buf)
ExtractFrame(c, buf) ==
    /\ parsed[c] = NoPayload
    /\ frame' = [frame EXCEPT ![c] = buf]
    /\ parsed' = [parsed EXCEPT ![c] =
                     [ kind |-> "extracted",
                       frame |-> _extract_frame(buf).frame,
                       remaining |-> _extract_frame(buf).remaining ]]
    /\ UNCHANGED <<mgrVars, timeouts, wire, buffer, pc, ack, pend, sock, extracted, parts,
                   split, storeVars>>

NextExtract == \E c \in Conns : \E buf \in ExtractInputs : ExtractFrame(c, buf)

SpecExtract == InitFresh /\ [][NextExtract]_vars

\* thread c has called _extract_frame
Called(c) == parsed[c].kind = "extracted"

\* the bytes of b from its first sync on; <<>> when it has none
FromSync(b) == IF FindSync(b) = -1 THEN <<>> ELSE Drop(b, FindSync(b))

\* b starts with a sync and a declared length of 1..(4096 - overhead), and
\* holds at least overhead + that length bytes
HoldsFrame(b, overhead) ==
    /\ Len(b) >= 4
    /\ b[3] + 256 * b[4] >= 1
    /\ b[3] + 256 * b[4] <= 4096 - overhead
    /\ Len(b) >= overhead + b[3] + 256 * b[4]

\* every call made yields a frame exactly when the bytes from the first sync
\* on hold a frame, whatever its CRC and end byte are; the frame starts with
\* the sync and has overhead + Packet_Length bytes, the bytes before the sync
\* are gone and the bytes after the frame are the remaining buffer; decode
\* finds the frame neither too short nor without sync nor of a wrong length,
\* and its header can be peeked
YieldsFramed(overhead) ==
    \A c \in Conns :
        Called(c) =>
            LET fr == parsed[c].frame IN
            /\ fr # <<>> <=> HoldsFrame(FromSync(frame[c]), overhead)
            /\ fr # <<>> =>
                  /\ Take(fr, 2) = SYNC_BYTES
                  /\ Len(fr) = overhead + _read_uint16(fr, 2)
                  /\ _read_uint16(fr, 2) \in 1..(4096 - overhead)
                  /\ Len(fr) <= 4096
                  /\ fr \o parsed[c].remaining = FromSync(frame[c])
                  /\ parse_uplink_frame(fr).err.msg
                        \notin {"frame too short", "sync mismatch", "length mismatch"}
                  /\ _safe_peek_header(fr) # <<>>

\* C37 as stated: an extracted frame has 26 + Packet_Length bytes, with
\* 1 <= Packet_Length <= 4070
C37_AsStated == YieldsFramed(26)

\* C37, amended: an extracted frame starts with 5A A5 and has exactly
\* 27 + Packet_Length bytes with 1 <= Packet_Length <= 4069 (28..4096 bytes
\* in all); the bytes before its sync are discarded and the bytes after it
\* are the remaining buffer, unchanged; the extractor checks neither CRC nor
\* end byte; ShortFrame, BadSync and LengthMismatch cannot occur for an
\* extracted frame and its header can be peeked
C37_ExtractedFrames == YieldsFramed(2 + 2 + 17 + 1 + 1 + 1 + 2 + 1)

\* the longest frame was extracted from between two other bytes, a frame one
\* byte longer was not, and a frame with a wrong CRC was
C37_Witness ==
    /\ frame[1] = <<9>> \o ZeroFrame(4069) \o <<7>>
    /\ parsed[1].frame = ZeroFrame(4069)
    /\ parsed[1].remaining = <<7>>
    /\ \/ frame[2] = ZeroFrame(4070) /\ Called(2) /\ parsed[2].frame = <<>>
       \/ frame[2] = FrameBadCrc /\ Called(2) /\ parsed[2].frame = FrameBadCrc

-----------------------------------------------------------------------------
(* The inner loop of handle().                                             *)

\* the handler of c finishes, in this step, a call of _extract_frame
ExtractionPass(c) == pc[c] = "extract" /\ pc'[c] # "extract"

\* C38: the inner extraction loop terminates: a pass that yields a frame
\* shortens the buffer by the frame, at least 27 bytes; a pass that yields
\* none leaves the loop for recv and does not lengthen the buffer; and the
\* body of the loop, from the yielded frame to the next pass, leaves the
\* buffer as it is.  So the buffer, which is finite, gets strictly shorter
\* from pass to pass until a pass yields nothing.
C38_InnerLoopTerminates ==
    [][\A c \in Conns :
          /\ (ExtractionPass(c) /\ pc'[c] = "handle")
             => (/\ Len(buffer'[c]) + Len(frame'[c]) <= Len(buffer[c])
                 /\ Len(frame'[c]) >= 27
                 /\ Len(extracted'[c]) = Len(extracted[c]) + 1)
          /\ (ExtractionPass(c) /\ pc'[c] # "handle")
             => (/\ pc'[c] = "recv"
                 /\ Len(buffer'[c]) <= Len(buffer[c])
                 /\ extracted'[c] = extracted[c])
          /\ InFlight(c)
             => (/\ buffer'[c] = buffer[c]
                 /\ pc'[c] \in {pc[c], "append", "send", "extract"})]_vars

\* two frames came in one chunk: the second pass of the loop has yielded the
\* second frame and emptied the buffer
C38_Witness ==
    /\ parts[1] = <<FrameLT, FrameW7>>
    /\ ~split[1]
    /\ extracted[1] = <<FrameLT, FrameW7>>
    /\ pc[1] = "handle"
    /\ buffer[1] = <<>>
    /\ Len(sock[1]) = 1

-----------------------------------------------------------------------------
(* SpecFlood: a peer that sends nothing but spurious syncs.                *)

\* what recv(4096) returns in SpecFlood: 4096 bytes, or fewer
ChunkSizes == {1024, 2048, 4096}

\* 5A A5 00 00, repeated 3072 times
Flood == [i \in 1..12288 |-> <<90, 165, 0, 0>>[((i - 1) % 4) + 1]]

\* self.request.recv(4096) returns n bytes; buffer.extend(chunk)
RecvChunk(c, n) ==
    /\ pc[c] = "recv"
    /\ n <= Len(wire[c])
    /\ buffer' = [buffer EXCEPT ![c] = @ \o Take(wire[c], n)]
    /\ wire' = [wire EXCEPT ![c] = Drop(@, n)]
    /\ split' = [split EXCEPT ![c] = @ \/ n < Len(wire[c])]
    /\ pc' = [pc EXCEPT ![c] = "extract"]
    /\ UNCHANGED <<mgrVars, timeouts, frame, parsed, ack, pend, sock, extracted, parts, storeVars>>

InitFlood ==
    /\ parts = [c \in Conns |-> IF c = 1 THEN <<Flood>> ELSE <<>>]
    /\ wire = [c \in Conns |-> IF c = 1 THEN Flood ELSE <<>>]
    /\ pc = [c \in Conns |-> IF c = 1 THEN "recv" ELSE "closed"]
    /\ split = [c \in Conns |-> FALSE]
    /\ timeouts = [c \in Conns |-> <<>>]
    /\ buffer = [c \in Conns |-> <<>>]
    /\ frame = [c \in Conns |-> <<>>]
    /\ parsed = [c \in Conns |-> NoPayload]
    /\ ack = [c \in Conns |-> <<>>]
    /\ pend = [t \in Threads |-> NoRecord]
    /\ sock = [c \in Conns |-> <<>>]
    /\ extracted = [c \in Conns |-> <<>>]
    /\ store = I1DataStore(RingCap, F32_80, 600)
    /\ ingested = <<>>
    /\ reconfigured = FALSE
    /\ ret = [t \in Callers \cup Consumers |-> <<>>]
    /\ AuxInit

NextFlood ==
    \E c \in Conns :
        \/ \E n \in ChunkSizes : RecvChunk(c, n)
        \/ RecvEof(c)
        \/ Extract(c)

SpecFlood == InitFlood /\ [][NextFlood]_vars

\* C39: the buffer of a connection stays bounded for every input stream:
\* when an extraction pass has ended and the handler is back at recv the
\* buffer holds fewer than 4096 bytes, and it never holds more than 8192
C39_BufferBounded ==
    \A c \in Conns :
        /\ pc[c] = "recv" => Len(buffer[c]) < 4096
        /\ Len(buffer[c]) <= 4096 + 4096

-----------------------------------------------------------------------------
(* SpecIngest: the handler threads ingest payloads of all four kinds, of   *)
(* several components, in any order.                                       *)

NextIngest ==
    \E c \in Conns :
        \/ \E payload \in WeatherPayloads : AddWeatherBuild(c, payload)
        \/ AddWeatherAppend(c)
        \/ \E payload \in FusionLineTemperatures : AddLineTemperatureBegin(c, payload)
        \/ AddLineTemperatureStore(c)
        \/ \E payload \in FusionTowerTilts : AddTowerTilt(c, payload)
        \/ \E payload \in HeartbeatPayloads : AddHeartbeat(c, payload)

SpecIngest == InitFresh /\ [][NextIngest]_vars

\* an add_* call for a payload of this kind returns in this step
IngestOf(kind) ==
    /\ Len(completed') = Len(completed) + 1
    /\ completed'[Len(completed')] = kind

\* dict d2 is d1 with one entry set: the other entries are those of d1
OneEntrySet(d1, d2) ==
    \E key \in DOMAIN d2 :
        /\ DOMAIN d2 = DOMAIN d1 \cup {key}
        /\ \A k \in DOMAIN d1 \ {key} : d2[k] = d1[k]

\* the fields of the store that configure sets
Settings(s) == <<s.max_records, s.line_temp_alert_threshold, s.line_temp_alert_timeout>>

\* C40: each ingest changes only its own part of the store and the update
\* counter: a weather ingest leaves the tilt cache, the heartbeat and the
\* alert table unchanged; a tilt ingest sets one entry of the tilt cache and
\* leaves its other entries, the ring, the heartbeat and the alert table
\* unchanged; a line temperature ingest sets one entry of the alert table
\* and nothing else; a heartbeat ingest sets the latest heartbeat and
\* nothing else; none changes max_records, the threshold or the timeout
C40_IngestFrames ==
    [][/\ IngestOf("weather")
          => (/\ store'.latest_tower_tilt = store.latest_tower_tilt
              /\ store'.latest_heartbeat = store.latest_heartbeat
              /\ store'.line_temp_alerts = store.line_temp_alerts)
       /\ IngestOf("tower_tilt")
          => (/\ OneEntrySet(store.latest_tower_tilt, store'.latest_tower_tilt)
              /\ store'.weather_records = store.weather_records
              /\ store'.latest_heartbeat = store.latest_heartbeat
              /\ store'.line_temp_alerts = store.line_temp_alerts)
       /\ IngestOf("line_temperature")
          => (/\ OneEntrySet(store.line_temp_alerts, store'.line_temp_alerts)
              /\ store'.weather_records = store.weather_records
              /\ store'.latest_heartbeat = store.latest_heartbeat
              /\ store'.latest_tower_tilt = store.latest_tower_tilt)
       /\ IngestOf("heartbeat")
          => (/\ store'.weather_records = store.weather_records
              /\ store'.latest_tower_tilt = store.latest_tower_tilt
              /\ store'.line_temp_alerts = store.line_temp_alerts)
       /\ (\E kind \in {"weather", "tower_tilt", "line_temperature", "heartbeat"} :
              IngestOf(kind))
          => (/\ Settings(store') = Settings(store)
              /\ store'.update_counter = store.update_counter + 1)]_vars

\* the tilt of a second component was ingested after the tilt of TT-301, and
\* then a heartbeat: both tilts are stored, the ring and the alerts are empty
C40_Witness ==
    /\ completed = <<"tower_tilt", "tower_tilt", "heartbeat">>
    /\ Cardinality(DOMAIN store.latest_tower_tilt) = 2
    /\ store.latest_tower_tilt[Str_TT301] = PayloadOf(FrameTT)
    /\ store.latest_heartbeat = PayloadOf(FrameHB)
    /\ store.weather_records = <<>>
    /\ store.line_temp_alerts = EmptyDict
    /\ store.update_counter = 3

-----------------------------------------------------------------------------
(* SpecIsolation: two sensors are connected at the same time.  The peer of *)
(* connection 1 sends a frame that decode rejects, or bytes that are no    *)
(* frame, and may reset its connection; the peer of connection 2 sends a   *)
(* valid frame.                                                            *)

\* self.request.recv(4096) raises an exception that is not a timeout (the
\* peer reset the connection): it leaves the loops, is logged by the outer
\* `except Exception`, and the handler ends
RecvRaises(c) ==
    /\ pc[c] = "recv"
    /\ pc' = [pc EXCEPT ![c] = "closed"]
    /\ UNCHANGED <<mgrVars, timeouts, wire, buffer, frame, parsed, ack, pend, sock, extracted,
                   parts, split, storeVars>>

\* what the peer of connection 1 sends
Disturbances ==
    { <<FrameUnsupported>>, <<FrameTruncated>>, <<<<90, 165, 0, 0>>, <<17, 34, 90>>>> }

InitIsolation ==
    /\ \E ps \in Disturbances :
          /\ parts = [c \in Conns |-> IF c = 1 THEN ps ELSE <<FrameLT>>]
          /\ wire = [c \in Conns |-> IF c = 1 THEN Flatten(ps) ELSE FrameLT]
    /\ pc = [c \in Conns |-> "recv"]
    /\ split = [c \in Conns |-> FALSE]
    /\ timeouts = [c \in Conns |-> <<>>]
    /\ buffer = [c \in Conns |-> <<>>]
    /\ frame = [c \in Conns |-> <<>>]
    /\ parsed = [c \in Conns |-> NoPayload]
    /\ ack = [c \in Conns |-> <<>>]
    /\ pend = [t \in Threads |-> NoRecord]
    /\ sock = [c \in Conns |-> <<>>]
    /\ extracted = [c \in Conns |-> <<>>]
    /\ store = I1DataStore(RingCap, F32_80, 600)
    /\ ingested = <<>>
    /\ reconfigured = FALSE
    /\ ret = [t \in Callers \cup Consumers |-> <<>>]
    /\ AuxInit

NextIsolation ==
    \E c \in Conns :
        \/ Recv(c)
        \/ RecvRaises(c)
        \/ RecvEof(c)
        \/ Extract(c)
        \/ HandleFrame(c)
        \/ SendAck(c)

SpecIsolation == InitIsolation /\ [][NextIsolation]_vars


\* what the handler of connection c holds and has done
Local(c) ==
    <<wire[c], buffer[c], pc[c], frame[c], parsed[c], ack[c], sock[c], extracted[c]>>

\* s ends with t
EndsWith(s, t) ==
    Len(t) <= Len(s) /\ SubSeq(s, Len(s) - Len(t) + 1, Len(s)) = t

\* the handler of the other connection has ended while bytes of its peer
\* were still unread, or has sent a failure ACK
Disturbed(c) ==
    \E d \in Conns \ {c} :
        \/ pc[d] = "closed" /\ wire[d] # <<>>
        \/ \E k \in 1..Len(sock[d]) : AckStatus(sock[d][k].data) = 0

\* C31: two connections do not affect each other.  A step of one handler
\* (bytes received, an exception raised by recv, a frame extracted, decoded,
\* rejected or answered) leaves what the other handler holds unchanged; the
\* bytes in a handler's buffer and the frames it extracts are bytes of its
\* own peer; each sendall on a connection's socket answers a frame extracted
\* on that connection, with the frame's Cmd_Id and Frame_No; and the valid
\* frame of connection 2 is extracted, stored and answered with one success
\* ACK whatever connection 1 received, while nothing else is written to the
\* store
C31_ConnectionIsolation ==
    /\ [][\A c, d \in Conns :
            (c # d /\ Local(c)' # Local(c)) => Local(d)' = Local(d)]_vars
    /\ [](\A c \in Conns :
            /\ EndsWith(Flatten(parts[c]), buffer[c] \o wire[c])
            /\ \A k \in 1..Len(extracted[c]) :
                  \E i \in 1..Len(Flatten(parts[c])) :
                      SubSeq(Flatten(parts[c]), i, i + Len(extracted[c][k]) - 1)
                          = extracted[c][k]
            /\ Len(sock[c]) <= Len(extracted[c])
            /\ \A k \in 1..Len(sock[c]) :
                  /\ AckCmdId(sock[c][k].data) = SubSeq(extracted[c][k], 5, 21)
                  /\ AckFrameNo(sock[c][k].data) = extracted[c][k][24])
    /\ [](store \in {ServerStore, Ingest(ServerStore, parse_uplink_frame(FrameLT).value)})
    /\ [](Drained(2)
            => (/\ extracted[2] = <<FrameLT>>
                /\ Len(sock[2]) = 1
                /\ AckStatus(sock[2][1].data) = 255
                /\ Holds(store, parse_uplink_frame(FrameLT).value)))

\* connection 1 was reset with bytes unread, or its frame was rejected with a
\* failure ACK, and the frame of connection 2 is stored and acknowledged
C31_Witness ==
    /\ Disturbed(2)
    /\ Drained(2)
    /\ Len(Written(2)) = 1
    /\ AckStatus(Written(2)[1]) = 255
    /\ Holds(store, parse_uplink_frame(FrameLT).value)

====
